---- MODULE Spec2Model ----
(***************************************************************************)
(* A model of the incremental analysis core of gqls: the two inputs        *)
(* (projects, file_data), the item skeleton lowering, the per-file item    *)
(* map and the resolver of gqls-ir, and the salsa database of gqls-db      *)
(* (snapshots, writes, cancellation).                                      *)
(***************************************************************************)
EXTENDS Integers, Sequences, FiniteSets, TLC

VARIABLES
    projects,      \* input: ProjectName -> set of FileId      (set_projects)
    file_data,     \* input: FileId -> FileData or NoData     (set_file_data)
    files_order,   \* iteration order of the set instance held by files()
    last,          \* the last operation done on the database handle and its result
    other,         \* a second database: its projects, file_data and files() order
    pending,       \* the write the handle has asked for and that waits for the query lock
    cancel_flag,   \* pending_revision is ahead of the revision that queries read
    memo,          \* the memo tables of files, items, item_map and resolve
    snaps,         \* the snapshots and the query each one runs
    hist           \* whether a query was unwound part-way through its loop

input_vars == <<projects, file_data, files_order>>
salsa_vars == <<pending, cancel_flag, memo, snaps, hist>>
vars == <<projects, file_data, files_order, last, other, pending, cancel_flag, memo, snaps, hist>>

----------------------------------------------------------------------------
(* Bounds of the model *)

\* most root-level nodes held by all files together
MaxItems == 2

FileIds == {1, 2}
ProjectNames == {"a", "b"}
Names == {"Foo", "Bar"}
NoName == "none"
NoData == "nodata"

----------------------------------------------------------------------------
(* Syntax trees.  A file's tree is the sequence of the root's item nodes;  *)
(* an item node has one child `def` (type_definition, type_extension,      *)
(* directive_definition), which has one child of kind `kind`, a name       *)
(* (NoName when the name node is missing) and a body.  `body` is the       *)
(* length of the text between the braces: it stands for the fields,        *)
(* arguments, variants and union members and decides the node's range.     *)
(* `directives` are the names of its directives node, `implements` the     *)
(* names of its implements_interfaces node (has_implements: the node is    *)
(* there), `locations` the tokens of its directive_locations node          *)
(* (has_locations: the node is there).                                     *)

Node(def, kind, name, body) ==
    [def |-> def, kind |-> kind, name |-> name, body |-> body,
     directives |-> <<>>, has_implements |-> FALSE, implements |-> <<>>,
     has_locations |-> FALSE, locations |-> <<>>]

ObjFoo == Node("type_definition", "object_type_definition", "Foo", 0)
ObjFooLong == Node("type_definition", "object_type_definition", "Foo", 1)
ObjBar == Node("type_definition", "object_type_definition", "Bar", 0)
ExtEnumFoo == Node("type_extension", "enum_type_extension", "Foo", 0)

RootNodes == {ObjFoo, ObjFooLong, ObjBar, ExtEnumFoo}

RECURSIVE SeqsUpTo(_, _)
SeqsUpTo(S, n) ==
    IF n = 0 THEN {<<>>}
    ELSE LET shorter == SeqsUpTo(S, n - 1)
         IN  shorter \cup {Append(s, x) : s \in {t \in shorter : Len(t) = n - 1}, x \in S}

Trees == SeqsUpTo(RootNodes, MaxItems)

\* the text length of a root node, and the byte offset at which node i starts
NodeLen(node) == 1 + node.body

RECURSIVE StartOf(_, _)
StartOf(tree, i) == IF i = 1 THEN 0 ELSE StartOf(tree, i - 1) + NodeLen(tree[i - 1]) + 1

RangeOf(tree, i) == <<StartOf(tree, i), StartOf(tree, i) + NodeLen(tree[i])>>

\* the names of the root-level item nodes of a tree, in source order
RootNames(tree) == [i \in 1..Len(tree) |-> tree[i].name]

\* one edit touches only the inside of type bodies
BodyOnlyEdit(old, new) ==
    /\ Len(old) = Len(new)
    /\ \A i \in 1..Len(old) :
         /\ old[i].def = new[i].def
         /\ old[i].kind = new[i].kind
         /\ old[i].name = new[i].name
         /\ old[i].directives = new[i].directives
         /\ old[i].has_implements = new[i].has_implements
         /\ old[i].implements = new[i].implements
         /\ old[i].has_locations = new[i].has_locations
         /\ old[i].locations = new[i].locations

----------------------------------------------------------------------------
(* Item skeleton lowering: ItemCtxt::lower and ItemCtxt::lower_item *)

None == [none |-> TRUE]

TypeDefinitionKind(kind) ==
    CASE kind = "object_type_definition" -> "Object"
      [] kind = "interface_type_definition" -> "Interface"
      [] kind = "scalar_type_definition" -> "Scalar"
      [] kind = "enum_type_definition" -> "Enum"
      [] kind = "union_type_definition" -> "Union"
      [] kind = "input_object_type_definition" -> "Input"

\* the 11 locations of DirectiveLocations; a bitset is the set of its flags
StandardLocations ==
    {"ARGUMENT_DEFINITION", "ENUM", "ENUM_VALUE", "FIELD_DEFINITION",
     "INPUT_FIELD_DEFINITION", "INPUT_OBJECT", "INTERFACE", "OBJECT", "SCALAR",
     "SCHEMA", "UNION"}

\* a directive_location node without its `location` child
NoToken == "none"

Panic == [panic |-> TRUE]

\* a fold that would keep the flag of the last token only
RECURSIVE fold_last_location(_, _, _)
fold_last_location(tokens, i, acc) ==
    IF i > Len(tokens) THEN acc
    ELSE fold_last_location(tokens, i + 1, IF tokens[i] = NoToken THEN acc ELSE {tokens[i]})

\* .filter_map(..).fold(DirectiveLocations::default(), |acc, location| acc | location)
RECURSIVE fold_locations(_, _, _)
fold_locations(tokens, i, acc) ==
    IF i > Len(tokens) THEN acc
    ELSE fold_locations(tokens, i + 1,
             IF tokens[i] = NoToken THEN acc ELSE acc \cup {tokens[i]})

\* LowerCtxt::lower_directives_of: the directives of a node, in source order
lower_directives_of(node) == node.directives

\* ItemCtxt::try_lower_implementations_of
try_lower_implementations_of(node) ==
    IF node.has_implements THEN [some |-> TRUE, names |-> node.implements]
    ELSE [some |-> FALSE, names |-> <<>>]

\* The item of one root node and the arenas after it, None when the node is
\* skipped, Panic when the lowering hits unreachable!.  ctx = [typedefs,
\* directives] is the ItemCtxt.
lower_item(ctx, tree, i) ==
    LET node == tree[i] IN
    CASE node.def = "type_definition" ->
           IF node.name = NoName THEN None
           ELSE [item |-> [range |-> RangeOf(tree, i), name |-> node.name,
                           kind |-> <<"TypeDefinition", Len(ctx.typedefs)>>],
                 ctx |-> [ctx EXCEPT !.typedefs =
                            Append(@, [is_ext |-> FALSE,
                                       kind |-> TypeDefinitionKind(node.kind),
                                       directives |-> lower_directives_of(node),
                                       implementations |->
                                           try_lower_implementations_of(node)])]]
      [] node.def = "type_extension" ->
           IF node.kind # "object_type_extension" THEN None
           ELSE IF node.name = NoName THEN None
           ELSE [item |-> [range |-> RangeOf(tree, i), name |-> node.name,
                           kind |-> <<"TypeDefinition", Len(ctx.typedefs)>>],
                 ctx |-> [ctx EXCEPT !.typedefs =
                            Append(@, [is_ext |-> TRUE, kind |-> "Object",
                                       directives |-> lower_directives_of(node),
                                       implementations |->
                                           try_lower_implementations_of(node)])]]
      [] node.def = "directive_definition" ->
           IF node.name = NoName THEN None
           ELSE IF ~node.has_locations THEN None
           ELSE IF \E k \in 1..Len(node.locations) :
                      node.locations[k] \notin StandardLocations \cup {NoToken}
           THEN Panic
           ELSE [item |-> [range |-> RangeOf(tree, i), name |-> node.name,
                           kind |-> <<"DirectiveDefinition", Len(ctx.directives)>>],
                 ctx |-> [ctx EXCEPT !.directives =
                            Append(@, [locations |->
                                          fold_locations(node.locations, 1, {})])]]
      [] OTHER -> None

\* a lowering that would allocate the arena entry of a type definition
\* before it finds that the node has no name
RECURSIVE lower_allocating_first(_, _, _, _)
lower_allocating_first(tree, i, items, ctx) ==
    IF i > Len(tree)
    THEN [items |-> items, typedefs |-> ctx.typedefs, directives |-> ctx.directives]
    ELSE LET r == lower_item(ctx, tree, i) IN
         IF r = Panic THEN Panic
         ELSE IF r = None
         THEN lower_allocating_first(tree, i + 1, items,
                  IF tree[i].def = "type_definition"
                  THEN [ctx EXCEPT !.typedefs =
                          Append(@, [is_ext |-> FALSE,
                                     kind |-> TypeDefinitionKind(tree[i].kind),
                                     directives |-> <<>>,
                                     implementations |-> [some |-> FALSE, names |-> <<>>]])]
                  ELSE ctx)
         ELSE lower_allocating_first(tree, i + 1, Append(items, r.item), r.ctx)

RECURSIVE lower_from(_, _, _, _)
lower_from(tree, i, items, ctx) ==
    IF i > Len(tree)
    THEN [items |-> items, typedefs |-> ctx.typedefs, directives |-> ctx.directives]
    ELSE LET r == lower_item(ctx, tree, i) IN
         IF r = Panic THEN Panic
         ELSE IF r = None THEN lower_from(tree, i + 1, items, ctx)
         ELSE lower_from(tree, i + 1, Append(items, r.item), r.ctx)

\* Items of a tree: the arena `items` (arena index = position - 1) and the
\* side arenas
lower(tree) == lower_from(tree, 1, <<>>, [typedefs |-> <<>>, directives |-> <<>>])

items(data) == lower(data)

----------------------------------------------------------------------------
(* Item map: name -> arena indices, keys present only for names that occur *)

RECURSIVE item_map_from(_, _, _)
item_map_from(arena, i, map) ==
    IF i > Len(arena) THEN map
    ELSE LET name == arena[i].name
             idx == i - 1
             old == IF name \in DOMAIN map THEN map[name] ELSE <<>>
         IN  item_map_from(arena, i + 1,
                 [n \in DOMAIN map \cup {name} |->
                     IF n = name THEN Append(old, idx) ELSE map[n]])

\* an item map built with insert instead of push: a later item of a name
\* replaces the earlier ones
item_map_insert(data) ==
    LET arena == items(data).items
        last_of(n) == CHOOSE i \in 1..Len(arena) :
                         /\ arena[i].name = n
                         /\ \A j \in 1..Len(arena) : arena[j].name = n => j <= i
    IN  [n \in {arena[i].name : i \in 1..Len(arena)} |-> <<last_of(n) - 1>>]

item_map(data) == item_map_from(items(data).items, 1, <<>>)

----------------------------------------------------------------------------
(* Source database: files() and the neighborhood of a file *)

files_of(projs) == UNION {projs[p] : p \in DOMAIN projs}

files == files_of(projects)

\* project_of(F): the files of every project that contains F
neighborhood(F) == UNION {projects[p] : p \in {q \in DOMAIN projects : F \in projects[q]}}

\* the orders in which a set can be iterated
Orders(S) == {s \in SeqsUpTo(S, Cardinality(S)) :
                 Len(s) = Cardinality(S) /\ \A i, j \in 1..Len(s) : i # j => s[i] # s[j]}

----------------------------------------------------------------------------
(* Resolver: for each path of files(), in its iteration order, the indices *)
(* item_map(path) holds for the name, lifted to Res { path, idx }          *)

Lift(path, idxs) == [k \in 1..Len(idxs) |-> [file |-> path, idx |-> idxs[k]]]

\* a resolver that would stop at the first file that has the name
RECURSIVE resolve_first_file_from(_, _, _, _, _)
resolve_first_file_from(order, fd, name, i, resolutions) ==
    IF i > Len(order) THEN resolutions
    ELSE LET path == order[i]
             map == item_map(fd[path])
         IN  IF name \in DOMAIN map
             THEN resolutions \o Lift(path, map[name])
             ELSE resolve_first_file_from(order, fd, name, i + 1, resolutions)

RECURSIVE resolve_from(_, _, _, _, _)
resolve_from(order, fd, name, i, resolutions) ==
    IF i > Len(order) THEN resolutions
    ELSE LET path == order[i]
             map == item_map(fd[path])
         IN  resolve_from(order, fd, name, i + 1,
                 IF name \in DOMAIN map
                 THEN resolutions \o Lift(path, map[name])
                 ELSE resolutions)

\* a resolver that takes the indices of every key of the map
RECURSIVE resolve_any_name_from(_, _, _, _)
resolve_any_name_from(order, fd, i, resolutions) ==
    IF i > Len(order) THEN resolutions
    ELSE LET path == order[i]
             arena == items(fd[path]).items
         IN  resolve_any_name_from(order, fd, i + 1,
                 resolutions \o Lift(path, [k \in 1..Len(arena) |-> k - 1]))

resolve_in_any_name(order, fd, name) == resolve_any_name_from(order, fd, 1, <<>>)

resolve_in(order, fd, name) == resolve_from(order, fd, name, 1, <<>>)

resolve(name) == resolve_in(files_order, file_data, name)

\* reading an input that was never set panics: queries are asked once every
\* file of files() has its data
Ready == \A f \in files : file_data[f] # NoData

----------------------------------------------------------------------------
(* The database handle: writes and queries *)

\* the project mappings the writer sets: no project, one project of one or
\* of both files, two disjoint projects, two projects sharing a file
ProjectConfigs ==
    { [a |-> {}, b |-> {}], [a |-> {1}, b |-> {}], [a |-> {1, 2}, b |-> {}],
      [a |-> {1}, b |-> {2}], [a |-> {1, 2}, b |-> {2}] }

NoOp == [op |-> "init", file |-> 0, name |-> NoName, res |-> <<>>, map |-> <<>>,
         had_data |-> FALSE, same_names |-> FALSE, body_only |-> FALSE,
         tree |-> <<>>, out |-> <<>>,
         row |-> <<>>, at |-> 0, column |-> 0,
         context |-> [ctx |-> "Document", loc |-> "none"],
         completions |-> <<>>, node |-> <<>>, ty |-> <<>>, diagnostics |-> <<>>,
         point |-> <<0, 0>>, locations |-> <<>>]

TotalItems(fd) ==
    LET n(f) == IF fd[f] = NoData THEN 0 ELSE Len(fd[f])
    IN  n(1) + n(2)

\* GqlsDatabase::default(): no project, no file data
NewDb == [projects |-> [p \in ProjectNames |-> {}],
          file_data |-> [f \in FileIds |-> NoData],
          files_order |-> <<>>]

\* most snapshots alive at once
MaxSnaps == 2
SnapIds == 1..MaxSnaps

\* the names the snapshots resolve
SalsaNames == {"Foo"}

\* no write asked for
NoWrite == [op |-> "none", projs |-> NewDb.projects, file |-> 0, data |-> <<>>]

\* a resolve(name) slot that was never computed (QueryState::NotComputed)
NotComputed == [state |-> "none", val |-> <<>>, deps |-> <<>>, changed |-> {},
                since |-> "clean", owner |-> 0]

\* salsa::Storage::default(): every slot empty
NoMemo == [files |-> [has |-> FALSE, val |-> {}, dirty |-> FALSE],
           items |-> [f \in FileIds |-> [has |-> FALSE, val |-> <<>>, dirty |-> FALSE]],
           item_map |-> [f \in FileIds |-> [has |-> FALSE, val |-> <<>>]],
           resolve |-> [n \in SalsaNames |-> NotComputed]]

NoSnap == [status |-> "none", name |-> NoName, pc |-> "resolve", i |-> 0,
           order |-> <<>>, acc |-> <<>>, res |-> <<>>,
           reused |-> FALSE, reexec |-> FALSE, since |-> "clean",
           at |-> [projects |-> NewDb.projects, file_data |-> NewDb.file_data]]

Init ==
    /\ projects = NewDb.projects
    /\ file_data = NewDb.file_data
    /\ files_order = NewDb.files_order
    /\ last = NoOp
    /\ other = NewDb
    /\ pending = NoWrite
    /\ cancel_flag = FALSE
    /\ memo = NoMemo
    /\ snaps = [s \in SnapIds |-> NoSnap]
    /\ hist = [unwound_partial |-> FALSE]

\* set_projects: files() is computed again from the new mapping into a new
\* set, whose iteration order is not specified
set_projects(projs) ==
    /\ projects' = projs
    /\ files_order' \in Orders(files_of(projs))
    /\ UNCHANGED <<file_data, other, salsa_vars>>
    /\ last' = [NoOp EXCEPT !.op = "set_projects"]

set_file_data(f, data) ==
    /\ TotalItems([file_data EXCEPT ![f] = data]) <= MaxItems
    /\ file_data' = [file_data EXCEPT ![f] = data]
    /\ UNCHANGED <<projects, files_order, other, salsa_vars>>
    /\ last' = [NoOp EXCEPT !.op = "set_file_data", !.file = f,
                    !.had_data = (file_data[f] # NoData),
                    !.same_names = (file_data[f] # NoData
                                    /\ RootNames(file_data[f]) = RootNames(data)),
                    !.body_only = (file_data[f] # NoData
                                   /\ BodyOnlyEdit(file_data[f], data))]

\* db.item_map(path)
query_item_map(f) ==
    /\ file_data[f] # NoData
    /\ last' = [NoOp EXCEPT !.op = "item_map", !.file = f, !.map = item_map(file_data[f])]
    /\ UNCHANGED <<input_vars, other, salsa_vars>>

\* db.resolve(name), asked for a name of file f
query_resolve(f, name) ==
    /\ Ready
    /\ f \in files
    /\ last' = [NoOp EXCEPT !.op = "resolve", !.file = f, !.name = name,
                    !.res = resolve(name)]
    /\ UNCHANGED <<input_vars, other, salsa_vars>>

Next ==
    \/ \E projs \in ProjectConfigs : set_projects(projs)
    \/ \E f \in FileIds, data \in Trees : set_file_data(f, data)
    \/ \E f \in FileIds : query_item_map(f)
    \/ \E f \in FileIds, name \in Names : query_resolve(f, name)

Spec == Init /\ [][Next]_vars

----------------------------------------------------------------------------
(* Two databases written independently of each other *)

TwoConfigs == { [a |-> {1, 2}, b |-> {}], [a |-> {1}, b |-> {2}] }
TwoTrees == { <<ObjFoo>>, <<ObjBar>> }

other_set_projects(projs) ==
    /\ \E order \in Orders(files_of(projs)) :
         other' = [other EXCEPT !.projects = projs, !.files_order = order]
    /\ UNCHANGED <<projects, file_data, files_order, last, salsa_vars>>

other_set_file_data(f, data) ==
    /\ other' = [other EXCEPT !.file_data[f] = data]
    /\ UNCHANGED <<projects, file_data, files_order, last, salsa_vars>>

NextTwo ==
    \/ \E projs \in TwoConfigs : set_projects(projs)
    \/ \E f \in FileIds, data \in TwoTrees : set_file_data(f, data)
    \/ \E projs \in TwoConfigs : other_set_projects(projs)
    \/ \E f \in FileIds, data \in TwoTrees : other_set_file_data(f, data)

SpecTwo == Init /\ [][NextTwo]_vars

----------------------------------------------------------------------------
(* Item skeleton lowering of one tree: ItemCtxt::new(text).lower(tree) *)

\* most tokens in the location list of a directive definition
MaxTokens == 3

DirDef(name, tokens) ==
    [Node("directive_definition", "directive_definition", name, 0)
        EXCEPT !.has_locations = TRUE, !.locations = tokens]

\* `extend type Foo implements Iface @qux {}`
ExtObjFoo ==
    [Node("type_extension", "object_type_extension", "Foo", 0)
        EXCEPT !.directives = <<"qux">>, !.has_implements = TRUE, !.implements = <<"Iface">>]

\* `type {}`: a type definition whose name node is missing
NamelessObj == Node("type_definition", "object_type_definition", NoName, 0)

\* `schema {}`: a root node that is neither a type nor a directive
SchemaDef == Node("schema_definition", "schema_definition", NoName, 0)

\* `directive @qux`: a directive definition without its `on` list
DirNoLocations == Node("directive_definition", "directive_definition", "qux", 0)

\* the tokens of a location list: three of the standard ones, a token that
\* is not one of them, and a location node without its token
LowerTokens == {"FIELD_DEFINITION", "OBJECT", "INPUT_OBJECT", "QUERY", NoToken}

TokenLists == SeqsUpTo(LowerTokens, MaxTokens)

SkeletonNodes ==
    {ObjFoo, ExtObjFoo, ExtEnumFoo, NamelessObj, SchemaDef, DirNoLocations,
     DirDef("qux", <<"OBJECT">>), DirDef("qux", <<"QUERY">>)}

LowerTrees ==
    SeqsUpTo(SkeletonNodes, MaxItems)
      \cup {<<DirDef("qux", t)>> : t \in TokenLists}
      \cup {<<ObjFoo, DirDef("qux", t)>> : t \in TokenLists}
      \cup {<<DirDef("qux", t), ObjBar>> : t \in TokenLists}

\* parse_fresh(text): the tree of a text
parse_tree(tree) ==
    /\ last' = [NoOp EXCEPT !.op = "parse", !.tree = tree]
    /\ UNCHANGED <<input_vars, other, salsa_vars>>

\* ItemCtxt::lower(tree)
lower_tree ==
    /\ last.op = "parse"
    /\ last' = [last EXCEPT !.op = "lower", !.out = lower(last.tree)]
    /\ UNCHANGED <<input_vars, other, salsa_vars>>

NextLower ==
    \/ \E tree \in LowerTrees : parse_tree(tree)
    \/ lower_tree

SpecLower == Init /\ [][NextLower]_vars

----------------------------------------------------------------------------
(* Completion context inference: CompletionCtxt::infer_context.  A row is  *)
(* the line of the cursor: for each column, the kind of the node that      *)
(* named_node_at finds at that column (NoNode when it finds none).         *)

\* the last column of a row
MaxCol == 11

\* `for _ in 0..10`
ScanWidth == 10

NoNode == "no_node"

Document == [ctx |-> "Document", loc |-> "none"]
InputField == [ctx |-> "InputField", loc |-> "none"]
Field == [ctx |-> "Field", loc |-> "none"]
UnionMembers == [ctx |-> "UnionMembers", loc |-> "none"]
Directive(location) == [ctx |-> "Directive", loc |-> location]

TypeKinds ==
    {"object_type_definition", "object_type_extension",
     "enum_type_definition", "enum_type_extension",
     "union_type_definition", "union_type_extension",
     "interface_type_definition", "interface_type_extension",
     "scalar_type_definition", "scalar_type_extension",
     "input_object_type_definition", "input_object_type_extension"}

EnumValueKinds == {"enum_values_definition", "enum_value_definition", "enum_value"}

\* the directive location of a type definition or type extension node
LocationOf(kind) ==
    CASE kind \in {"object_type_definition", "object_type_extension"} -> "OBJECT"
      [] kind \in {"enum_type_definition", "enum_type_extension"} -> "ENUM"
      [] kind \in {"union_type_definition", "union_type_extension"} -> "UNION"
      [] kind \in {"interface_type_definition", "interface_type_extension"} -> "INTERFACE"
      [] kind \in {"scalar_type_definition", "scalar_type_extension"} -> "SCALAR"
      [] kind \in {"input_object_type_definition", "input_object_type_extension"} ->
             "INPUT_OBJECT"

\* the kinds the match of infer_context returns on
Notable(kind) ==
    kind \in TypeKinds \cup EnumValueKinds
               \cup {"input_fields_definition", "fields_definition", "field_definition",
                     "union_member_types"}

ContextOf(kind) ==
    CASE kind \in TypeKinds -> Directive(LocationOf(kind))
      [] kind \in EnumValueKinds -> Directive("ENUM_VALUE")
      [] kind = "input_fields_definition" -> InputField
      [] kind \in {"fields_definition", "field_definition"} -> Field
      [] kind = "union_member_types" -> UnionMembers

NodeAt(row, column) == row[column + 1]

\* the loop of infer_context with n rounds left: the context and the last
\* column it looked at
RECURSIVE infer_from(_, _, _)
infer_from(row, at, n) ==
    IF n = 0 THEN [context |-> Document, column |-> at + 1]
    ELSE LET kind == NodeAt(row, at) IN
         IF kind = NoNode THEN [context |-> Document, column |-> at]
         ELSE IF Notable(kind) THEN [context |-> ContextOf(kind), column |-> at]
         ELSE IF at = 0 THEN [context |-> Document, column |-> at]
         ELSE infer_from(row, at - 1, n - 1)

infer_context(row, at) == infer_from(row, at, ScanWidth)

Columns == 0..MaxCol

\* a row of name nodes with the node kind k at column p
RowWith(k, p) == [c \in 1..(MaxCol + 1) |-> IF c = p + 1 THEN k ELSE "name"]

\* a row with k1 at column p1 and k2 at column p2
RowWithTwo(k1, p1, k2, p2) ==
    [c \in 1..(MaxCol + 1) |-> IF c = p1 + 1 THEN k1 ELSE IF c = p2 + 1 THEN k2 ELSE "name"]

RowKinds ==
    TypeKinds \cup EnumValueKinds
      \cup {"input_fields_definition", "input_value_definition", "fields_definition",
            "field_definition", "union_member_types", "name", NoNode}

PairKinds == {"object_type_definition", "field_definition", "input_value_definition", NoNode}

Rows ==
    {RowWith(k, p) : k \in RowKinds, p \in Columns}
      \cup {RowWithTwo(k1, p1, k2, p2) : k1 \in PairKinds, k2 \in PairKinds,
                                         p1 \in Columns, p2 \in Columns}

\* the cursor is put on a line of the file
open_row(row) ==
    /\ last.op = "init"
    /\ last' = [NoOp EXCEPT !.op = "row", !.row = row]
    /\ UNCHANGED <<input_vars, other, salsa_vars>>

\* CompletionCtxt::infer_context(snapshot, file, at)
query_infer_context(at) ==
    /\ last.op = "row"
    /\ LET r == infer_context(last.row, at)
       IN  last' = [last EXCEPT !.op = "infer_context", !.at = at,
                       !.context = r.context, !.column = r.column]
    /\ UNCHANGED <<input_vars, other, salsa_vars>>

NextContext ==
    \/ \E row \in Rows : open_row(row)
    \/ \E at \in Columns : query_infer_context(at)

SpecContext == Init /\ [][NextContext]_vars

----------------------------------------------------------------------------
(* Body lowering of a type reference (BodyCtxt::lower_type) and            *)
(* completions (Snapshot::completions) over the items of the project       *)

\* the file ids of a set in ascending order
RECURSIVE SortedSeq(_)
SortedSeq(S) ==
    IF S = {} THEN <<>>
    ELSE LET least == CHOOSE x \in S : \A y \in S : x <= y
         IN  <<least>> \o SortedSeq(S \ {least})

\* DefDatabase::resolve_item(InProject { file, name }): Res::Err when no
\* file of the neighborhood has an item of the name
resolve_item(file, name) ==
    LET found == resolve_in(SortedSeq(neighborhood(file)), file_data, name)
    IN  [err |-> found = <<>>, items |-> found]

\* type reference nodes: `Foo`, `[Foo]`, `Foo!`, the name at columns 5 to 8
NamedType(name) ==
    [kind |-> "named_type", name |-> name, range |-> <<5, 8>>,
     child |-> <<>>]
Wrap(kind, inner, range) ==
    [kind |-> kind, name |-> NoName, range |-> range, child |-> inner]
TypeOf(inner) == Wrap("type", <<inner>>, inner.range)
ListType(inner) == Wrap("list_type", <<inner>>, <<inner.range[1] - 1, inner.range[2] + 1>>)
NonNullType(inner) == Wrap("non_null_type", <<inner>>, <<inner.range[1], inner.range[2] + 1>>)
\* `[]`: a list type whose element is missing
EmptyListType == Wrap("list_type", <<>>, <<4, 6>>)

\* the name node of a type reference, <<>> when it has none
RECURSIVE NameNodeOf(_)
NameNodeOf(node) ==
    IF node.kind = "named_type" THEN <<node>>
    ELSE IF node.child = <<>> THEN <<>>
    ELSE NameNodeOf(node.child[1])

TypeRefsOf(name) ==
    { TypeOf(NamedType(name)),
      TypeOf(ListType(TypeOf(NamedType(name)))),
      TypeOf(NonNullType(NamedType(name))),
      TypeOf(NonNullType(ListType(TypeOf(NonNullType(NamedType(name)))))) }

TypeRefs == TypeRefsOf("Foo") \cup TypeRefsOf("Baz") \cup {TypeOf(EmptyListType)}

\* an ERROR node of the parser's error recovery
ErrorNode == [kind |-> "ERROR", name |-> NoName, range |-> <<4, 5>>, child |-> <<>>]

is_error(node) == node.kind = "ERROR"

\* NodeExt::sole_named_child: `child` holds the named children, the ERROR
\* nodes included; Panic when the assertion fails
sole_named_child(node) ==
    IF Len(node.child) > 1
    THEN LET children == SelectSeq(node.child, LAMBDA child : ~is_error(child))
         IN  IF Len(children) > 1 THEN Panic
             ELSE IF children = <<>> THEN None
             ELSE children[1]
    ELSE IF node.child = <<>> THEN None ELSE node.child[1]

NoTy == [some |-> FALSE]
Ty(range, kind, name, res, inner) ==
    [range |-> range, kind |-> kind, name |-> name, res |-> res, inner |-> inner]
NoRes == [err |-> FALSE, items |-> <<>>]

\* a lowering of a name that would record nothing for an unresolved one
lower_named_type_silently(file, node, diagnostics) ==
    LET res == resolve_item(file, node.name)
    IN  [some |-> TRUE,
         ty |-> Ty(node.range, IF res.err THEN "Err" ELSE "Named", node.name,
                   IF res.err THEN NoRes ELSE res, <<>>),
         diagnostics |-> diagnostics]

\* a lowering of a name that would keep the Err resolution in a Named type
lower_named_type_keeping_err(file, node, diagnostics) ==
    [some |-> TRUE,
     ty |-> Ty(node.range, "Named", node.name, resolve_item(file, node.name), <<>>),
     diagnostics |-> diagnostics]

\* BodyCtxt::lower_named_type
lower_named_type(file, node, diagnostics) ==
    LET res == resolve_item(file, node.name)
    IN  IF res.err
        THEN [some |-> TRUE,
              ty |-> Ty(node.range, "Err", node.name, NoRes, <<>>),
              diagnostics |-> Append(diagnostics,
                                 [range |-> node.range, kind |-> "UnresolvedType",
                                  name |-> node.name])]
        ELSE [some |-> TRUE,
              ty |-> Ty(node.range, "Named", node.name, res, <<>>),
              diagnostics |-> diagnostics]

\* the outcome of a lowering that hit a failed assertion or unreachable!
Panicked(diagnostics) == [some |-> FALSE, panic |-> TRUE, diagnostics |-> diagnostics]

HasPanicked(r) == "panic" \in DOMAIN r

\* BodyCtxt::lower_type and lower_list_type; None is [some |-> FALSE]
RECURSIVE lower_type(_, _, _)
lower_type(file, node, diagnostics) ==
    LET unwrapped == IF node.kind = "type" THEN sole_named_child(node) ELSE node
        none == [some |-> FALSE, diagnostics |-> diagnostics]
    IN  IF node.kind \notin {"type", "named_type", "list_type", "non_null_type"}
        THEN Panicked(diagnostics)
        ELSE IF unwrapped = Panic THEN Panicked(diagnostics)
        ELSE IF unwrapped = None THEN none
        ELSE LET ty == unwrapped IN
        CASE ty.kind = "named_type" -> lower_named_type(file, ty, diagnostics)
          [] ty.kind = "list_type" ->
               IF sole_named_child(ty) = Panic THEN Panicked(diagnostics)
               ELSE IF sole_named_child(ty) = None THEN none
               ELSE LET r == lower_type(file, sole_named_child(ty), diagnostics)
                    IN  IF ~r.some THEN r
                        ELSE [r EXCEPT !.ty = Ty(ty.range, "List", NoName, NoRes, <<r.ty>>)]
          [] ty.kind = "non_null_type" ->
               IF sole_named_child(ty) = Panic THEN Panicked(diagnostics)
               ELSE IF sole_named_child(ty) = None THEN none
               ELSE LET inner == sole_named_child(ty)
                        r == IF inner.kind = "named_type"
                             THEN lower_named_type(file, inner, diagnostics)
                             ELSE IF inner.kind = "list_type"
                             THEN lower_type(file, inner, diagnostics)
                             ELSE Panicked(diagnostics)
                    IN  IF ~r.some THEN r
                        ELSE [r EXCEPT !.ty = Ty(ty.range, "NonNull", NoName, NoRes, <<r.ty>>)]
          [] OTHER -> Panicked(diagnostics)

\* Type::item_resolutions
RECURSIVE item_resolutions(_)
item_resolutions(ty) ==
    CASE ty.kind = "Named" -> IF ty.res.err THEN <<>> ELSE ty.res.items
      [] ty.kind \in {"NonNull", "List"} -> item_resolutions(ty.inner[1])
      [] ty.kind = "Err" -> <<>>

\* Type::name
RECURSIVE name_of_type(_)
name_of_type(ty) ==
    CASE ty.kind \in {"Named", "Err"} -> ty.name
      [] ty.kind \in {"NonNull", "List"} -> name_of_type(ty.inner[1])

\* the items of the files: types of each kind, an object type extension and
\* two directives
InputBar == Node("type_definition", "input_object_type_definition", "Bar", 0)
IfaceI == Node("type_definition", "interface_type_definition", "Iface", 0)
EnumE == Node("type_definition", "enum_type_definition", "E", 0)
ScalarS == Node("type_definition", "scalar_type_definition", "S", 0)
UnionU == Node("type_definition", "union_type_definition", "U", 0)
DirQux == DirDef("qux", <<"FIELD_DEFINITION", "OBJECT", "INPUT_OBJECT">>)
DirD == DirDef("d", <<"ENUM_VALUE">>)

IdeNodes == {ObjFoo, ExtObjFoo, InputBar, IfaceI, EnumE, ScalarS, UnionU, DirQux, DirD}
IdeTrees == {<<node>> : node \in IdeNodes}
IdeConfigs == { [a |-> {1, 2}, b |-> {}], [a |-> {1}, b |-> {2}] }

\* BodyCtxt::new(db, file).lower_type(node)
query_lower_type(f, node) ==
    /\ file_data[f] # NoData
    /\ \A g \in neighborhood(f) : file_data[g] # NoData
    /\ LET r == lower_type(f, node, <<>>)
       IN  last' = [NoOp EXCEPT !.op = "lower_type", !.file = f, !.node = node,
                       !.ty = IF r.some THEN <<r.ty>> ELSE <<>>,
                       !.diagnostics = r.diagnostics]
    /\ UNCHANGED <<input_vars, other, salsa_vars>>

CompletionItem(label, kind, locations) ==
    [label |-> label, kind |-> kind, locations |-> locations]

\* the match of CompletionCtxt::items
CompletionItemKind(kind) ==
    CASE kind = "Object" -> "Object"
      [] kind = "Input" -> "InputObject"
      [] kind = "Interface" -> "Interface"
      [] kind = "Scalar" -> "Scalar"
      [] kind = "Enum" -> "Enum"
      [] kind = "Union" -> "Union"

CompletionOf(its, item) ==
    IF item.kind[1] = "TypeDefinition"
    THEN CompletionItem(item.name, CompletionItemKind(its.typedefs[item.kind[2] + 1].kind), {})
    ELSE CompletionItem(item.name, "Directive", its.directives[item.kind[2] + 1].locations)

\* Snapshot::project_items(file): the Items of each file of the neighborhood
project_items(file) == [g \in neighborhood(file) |-> items(file_data[g])]

\* CompletionCtxt::items: project_items.values() in the order of the map,
\* the items of each file in arena order
RECURSIVE items_from(_, _, _, _)
items_from(project, order, i, completions) ==
    IF i > Len(order) THEN completions
    ELSE LET its == project[order[i]]
         IN  items_from(project, order, i + 1,
                 completions \o [k \in 1..Len(its.items) |-> CompletionOf(its, its.items[k])])

Keywords == <<"scalar", "enum", "struct", "union", "interface", "directive", "input">>

complete_document == [k \in 1..Len(Keywords) |-> CompletionItem(Keywords[k], "Keyword", {})]

InputFieldItem(item) ==
    CASE item.kind = "Directive" -> "INPUT_FIELD_DEFINITION" \in item.locations
      [] item.kind \in {"InputObject", "Enum", "Scalar"} -> TRUE
      [] OTHER -> FALSE

FieldItem(item) ==
    CASE item.kind = "Directive" -> "FIELD_DEFINITION" \in item.locations
      [] item.kind \in {"Object", "Interface", "Enum", "Scalar", "Union"} -> TRUE
      [] OTHER -> FALSE

complete_input_fields(all) == SelectSeq(all, InputFieldItem)

\* a filter that would keep every type, the input objects included
complete_every_type(all) == SelectSeq(all, LAMBDA item : item.kind # "Directive")

complete_fields(all) == SelectSeq(all, FieldItem)

complete_union_member(all) == SelectSeq(all, LAMBDA item : item.kind = "Object")

\* a filter that would offer every directive
complete_every_directive(all, location) ==
    SelectSeq(all, LAMBDA item : item.kind = "Directive")

complete_directives(all, location) ==
    SelectSeq(all, LAMBDA item : item.kind = "Directive" /\ location \in item.locations)

\* a dispatch that would add the keywords in every context
completions_with_keywords(context, all) ==
    complete_document \o
      (CASE context.ctx = "Field" -> complete_fields(all)
         [] context.ctx = "Document" -> <<>>
         [] context.ctx = "UnionMembers" -> complete_union_member(all)
         [] context.ctx = "InputField" -> complete_input_fields(all)
         [] context.ctx = "Directive" -> complete_directives(all, context.loc))

\* CompletionCtxt::completions
completions(context, all) ==
    CASE context.ctx = "Field" -> complete_fields(all)
      [] context.ctx = "Document" -> complete_document
      [] context.ctx = "UnionMembers" -> complete_union_member(all)
      [] context.ctx = "InputField" -> complete_input_fields(all)
      [] context.ctx = "Directive" -> complete_directives(all, context.loc)

\* the rows of the cursor: one node kind at the first column
IdeKinds ==
    {"name", "field_definition", "fields_definition", "input_fields_definition",
     "union_member_types", "object_type_definition", "enum_type_definition",
     "enum_value"}
IdeRows == {RowWith(k, 0) : k \in IdeKinds}
IdeColumns == {0, 1}

\* Snapshot::completions(file, at)
query_completions(f, row, at) ==
    /\ file_data[f] # NoData
    /\ \A g \in neighborhood(f) : file_data[g] # NoData
    /\ \E order \in Orders(neighborhood(f)) :
         LET context == infer_context(row, at).context
         IN  last' = [NoOp EXCEPT !.op = "completions", !.file = f, !.row = row,
                         !.at = at, !.context = context,
                         !.completions =
                             completions(context, items_from(project_items(f), order, 1, <<>>))]
    /\ UNCHANGED <<input_vars, other, salsa_vars>>

NextIde ==
    \/ \E projs \in IdeConfigs : set_projects(projs)
    \/ \E f \in FileIds, data \in IdeTrees : set_file_data(f, data)
    \/ \E f \in FileIds, node \in TypeRefs : query_lower_type(f, node)
    \/ \E f \in FileIds, row \in IdeRows, at \in IdeColumns : query_completions(f, row, at)
    \/ \E f \in FileIds, name \in Names : query_resolve(f, name)

SpecIde == Init /\ [][NextIde]_vars

----------------------------------------------------------------------------
(* Item body lowering: BodyCtxt::lower_typedef                             *)

\* a node of a body: `child` holds its named children in source order
BNode(kind, name, range, child) ==
    [kind |-> kind, name |-> name, range |-> range, child |-> child,
     text |-> <<>>, directives |-> <<>>]

\* a node and its descendants moved right by d columns
RECURSIVE Shift(_, _)
Shift(node, d) ==
    [node EXCEPT !.range = <<@[1] + d, @[2] + d>>,
                 !.child = [k \in 1..Len(@) |-> Shift(@[k], d)]]

\* NodeExt::children_of_kind and child_of_kind
children_of_kind(node, kind) == SelectSeq(node.child, LAMBDA child : child.kind = kind)

child_of_kind(node, kind) ==
    IF children_of_kind(node, kind) = <<>> THEN None ELSE children_of_kind(node, kind)[1]

\* str::parse of the digits of an integer literal, Err when the number does
\* not fit the integer type (32 bits are taken for the integer of Value::Int)
RECURSIVE parse_int(_, _, _)
parse_int(digits, i, acc) ==
    IF i > Len(digits) THEN [ok |-> TRUE, val |-> acc]
    ELSE IF acc > (2147483647 - digits[i]) \div 10 THEN [ok |-> FALSE, val |-> 0]
    ELSE parse_int(digits, i + 1, acc * 10 + digits[i])

\* Iterator::filter_map over lowered sub-items: Panic if one of them raised,
\* otherwise those that are not None, in order
filter_map(lowered) == SelectSeq(lowered, LAMBDA v : v # None)

\* one of the lowered sub-items raised
any_panic(lowered) == \E k \in 1..Len(lowered) : lowered[k] = Panic

\* BodyCtxt::lower_value and lower_object_field: None, Panic or the value
RECURSIVE lower_value(_)
lower_value(node) ==
    IF node.kind # "value" THEN Panic
    ELSE LET value == sole_named_child(node) IN
         IF value = Panic THEN Panic
         ELSE IF value = None THEN None
         ELSE CASE value.kind = "string_value" -> [kind |-> "String", val |-> value.text]
                [] value.kind = "int_value" ->
                     IF parse_int(value.text, 1, 0).ok
                     THEN [kind |-> "Int", val |-> parse_int(value.text, 1, 0).val]
                     ELSE Panic
                [] value.kind = "float_value" -> [kind |-> "Float", val |-> value.text]
                [] value.kind = "boolean_value" ->
                     IF value.text = "true" THEN [kind |-> "Boolean", val |-> TRUE]
                     ELSE IF value.text = "false" THEN [kind |-> "Boolean", val |-> FALSE]
                     ELSE Panic
                [] value.kind = "null_value" -> [kind |-> "Null", val |-> <<>>]
                [] value.kind = "enum_value" -> [kind |-> "Enum", val |-> value.text]
                [] value.kind = "list_value" ->
                     LET nodes == children_of_kind(value, "value")
                         list_of(values) ==
                             IF any_panic(values) THEN Panic
                             ELSE [kind |-> "List", val |-> filter_map(values)]
                     IN  list_of([k \in 1..Len(nodes) |-> lower_value(nodes[k])])
                [] value.kind = "object_value" ->
                     LET nodes == children_of_kind(value, "object_field")
                         lower_object_field(field) ==
                             IF field.name = NoName \/ child_of_kind(field, "value") = None
                             THEN None
                             ELSE LET named(v) ==
                                          IF v = Panic \/ v = None THEN v
                                          ELSE [kind |-> "ObjectField", name |-> field.name,
                                                val |-> v]
                                  IN  named(lower_value(child_of_kind(field, "value")))
                         object_of(fields) ==
                             IF any_panic(fields) THEN Panic
                             ELSE [kind |-> "Object", val |-> filter_map(fields)]
                     IN  object_of([k \in 1..Len(nodes) |-> lower_object_field(nodes[k])])
                [] OTHER -> Panic

\* BodyCtxt::lower_default_value_of
lower_default_value_of(node) ==
    IF child_of_kind(node, "default_value") = None THEN None
    ELSE LET value == sole_named_child(child_of_kind(node, "default_value")) IN
         IF value = Panic THEN Panic
         ELSE IF value = None THEN None
         ELSE lower_value(value)

\* the outcome of a sub-item that is dropped: None, the diagnostics kept
Dropped(diagnostics) == [some |-> FALSE, diagnostics |-> diagnostics]

\* BodyCtxt::lower_arg and lower_input_field: the name, then the type, then
\* the default value
lower_input_value(file, node, diagnostics) ==
    IF node.kind # "input_value_definition" THEN Panicked(diagnostics)
    ELSE IF node.name = NoName THEN Dropped(diagnostics)
    ELSE IF child_of_kind(node, "type") = None THEN Dropped(diagnostics)
    ELSE LET with_default(ty, default_value) ==
                 IF default_value = Panic THEN Panicked(ty.diagnostics)
                 ELSE [some |-> TRUE,
                       val |-> [range |-> node.range, name |-> node.name, ty |-> ty.ty,
                                directives |-> node.directives,
                                default_value |-> default_value, args |-> <<>>],
                       diagnostics |-> ty.diagnostics]
             with_type(ty) ==
                 IF ~ty.some THEN ty ELSE with_default(ty, lower_default_value_of(node))
         IN  with_type(lower_type(file, child_of_kind(node, "type"), diagnostics))

\* BodyCtxt::lower_args and lower_input_fields: filter_map over the
\* input_value_definition children
RECURSIVE lower_input_values(_, _, _, _, _)
lower_input_values(file, nodes, i, acc, diagnostics) ==
    IF i > Len(nodes) THEN [some |-> TRUE, val |-> acc, diagnostics |-> diagnostics]
    ELSE LET collect(r) ==
                 IF HasPanicked(r) THEN r
                 ELSE lower_input_values(file, nodes, i + 1,
                          IF r.some THEN Append(acc, r.val) ELSE acc, r.diagnostics)
         IN  collect(lower_input_value(file, nodes[i], diagnostics))

\* BodyCtxt::lower_args_of
lower_args_of(file, node, diagnostics) ==
    IF child_of_kind(node, "arguments_definition") = None
    THEN [some |-> TRUE, val |-> <<>>, diagnostics |-> diagnostics]
    ELSE lower_input_values(file,
             children_of_kind(child_of_kind(node, "arguments_definition"),
                              "input_value_definition"), 1, <<>>, diagnostics)

\* BodyCtxt::lower_field: the type, then the name, then the arguments
lower_field(file, node, diagnostics) ==
    IF node.kind # "field_definition" THEN Panicked(diagnostics)
    ELSE IF child_of_kind(node, "type") = None THEN Dropped(diagnostics)
    ELSE LET with_args(ty, args) ==
                 IF HasPanicked(args) THEN args
                 ELSE [some |-> TRUE,
                       val |-> [range |-> node.range, name |-> node.name, ty |-> ty.ty,
                                directives |-> node.directives,
                                default_value |-> None, args |-> args.val],
                       diagnostics |-> args.diagnostics]
             with_type(ty) ==
                 IF ~ty.some THEN ty
                 ELSE IF node.name = NoName THEN Dropped(ty.diagnostics)
                 ELSE with_args(ty, lower_args_of(file, node, ty.diagnostics))
         IN  with_type(lower_type(file, child_of_kind(node, "type"), diagnostics))

\* BodyCtxt::lower_fields: filter_map over the field_definition children
RECURSIVE lower_fields(_, _, _, _, _)
lower_fields(file, nodes, i, acc, diagnostics) ==
    IF i > Len(nodes) THEN [some |-> TRUE, val |-> acc, diagnostics |-> diagnostics]
    ELSE LET collect(r) ==
                 IF HasPanicked(r) THEN r
                 ELSE lower_fields(file, nodes, i + 1,
                          IF r.some THEN Append(acc, r.val) ELSE acc, r.diagnostics)
         IN  collect(lower_field(file, nodes[i], diagnostics))

\* BodyCtxt::lower_fields_of
lower_fields_of(file, node, diagnostics) ==
    IF child_of_kind(node, "fields_definition") = None
    THEN [some |-> TRUE, val |-> <<>>, diagnostics |-> diagnostics]
    ELSE lower_fields(file,
             children_of_kind(child_of_kind(node, "fields_definition"), "field_definition"),
             1, <<>>, diagnostics)

\* BodyCtxt::lower_union_member_types: map over the named_type children
RECURSIVE lower_union_member_types(_, _, _, _, _)
lower_union_member_types(file, nodes, i, acc, diagnostics) ==
    IF i > Len(nodes) THEN [some |-> TRUE, val |-> acc, diagnostics |-> diagnostics]
    ELSE LET collect(r) ==
                 lower_union_member_types(file, nodes, i + 1, Append(acc, r.ty),
                                          r.diagnostics)
         IN  collect(lower_named_type(file, nodes[i], diagnostics))

\* BodyCtxt::lower_enum_variants: the names of the enum_value children of
\* the enum_value_definition children
lower_enum_variants(nodes) ==
    LET named == SelectSeq(nodes, LAMBDA variant :
                     child_of_kind(variant, "enum_value") # None
                     /\ child_of_kind(variant, "enum_value").name # NoName)
    IN  [k \in 1..Len(named) |-> child_of_kind(named[k], "enum_value").name]

ItemBody(kind, r) ==
    IF HasPanicked(r) THEN Panic
    ELSE [kind |-> kind, val |-> r.val, diagnostics |-> r.diagnostics]

\* BodyCtxt::lower_typedef
lower_typedef(file, node) ==
    CASE node.kind \in {"object_type_definition", "object_type_extension",
                        "interface_type_definition"} ->
           ItemBody(IF node.kind = "interface_type_definition" THEN "Interface" ELSE "Object",
                    lower_fields_of(file, node, <<>>))
      [] node.kind = "input_object_type_definition" ->
           ItemBody("InputObject",
               IF child_of_kind(node, "input_fields_definition") = None
               THEN [some |-> TRUE, val |-> <<>>, diagnostics |-> <<>>]
               ELSE lower_input_values(file,
                        children_of_kind(child_of_kind(node, "input_fields_definition"),
                                         "input_value_definition"), 1, <<>>, <<>>))
      [] node.kind = "union_type_definition" ->
           ItemBody("Union",
               IF child_of_kind(node, "union_member_types") = None
               THEN [some |-> TRUE, val |-> <<>>, diagnostics |-> <<>>]
               ELSE lower_union_member_types(file,
                        children_of_kind(child_of_kind(node, "union_member_types"),
                                         "named_type"), 1, <<>>, <<>>))
      [] node.kind = "enum_type_definition" ->
           ItemBody("Enum",
               [some |-> TRUE, diagnostics |-> <<>>,
                val |-> IF child_of_kind(node, "enum_values_definition") = None THEN <<>>
                        ELSE lower_enum_variants(
                                 children_of_kind(child_of_kind(node, "enum_values_definition"),
                                                  "enum_value_definition"))])
      [] OTHER -> [kind |-> "Todo", val |-> <<>>, diagnostics |-> <<>>]

\* most fields, input fields, union members or variants of a body
MaxFields == 2

\* the nodes of a field written at the columns 0 to 19 of its row: its type
\* at 5, its arguments from 9, the type of an argument at 11, its default
\* value at 16
IntValue(digits) == [BNode("int_value", NoName, <<16, 17>>, <<>>) EXCEPT !.text = digits]
DefaultValue(value) ==
    BNode("default_value", NoName, value.range,
          <<BNode("value", NoName, value.range, <<value>>)>>)
ArgNode(name, parts) == BNode("input_value_definition", name, <<10, 18>>, parts)
ArgsNode(args) == BNode("arguments_definition", NoName, <<9, 19>>, args)
FieldNode(name, parts) == BNode("field_definition", name, <<0, 19>>, parts)

TypeFoo == TypeOf(NamedType("Foo"))
TypeBaz == TypeOf(NamedType("Baz"))
ArgTypeFoo == Shift(TypeFoo, 6)
ArgTypeBaz == Shift(TypeBaz, 6)

\* an integer literal of 40 digits
HugeInt == IntValue([k \in 1..40 |-> 9])

\* `bar: Foo`, `baz: Baz`, `: Baz`, `bar`, `bar(x: Baz = 1): Foo`,
\* `bar(x: Foo = 9999...): Foo`, `bar(: Baz): Foo` and a field whose type
\* node holds an ERROR node only
FieldShapes ==
    { FieldNode("bar", <<TypeFoo>>),
      FieldNode("baz", <<TypeBaz>>),
      FieldNode(NoName, <<TypeBaz>>),
      FieldNode("bar", <<>>),
      FieldNode("bar", <<TypeFoo,
          ArgsNode(<<ArgNode("x", <<ArgTypeBaz, DefaultValue(IntValue(<<1>>))>>)>>)>>),
      FieldNode("bar", <<TypeFoo,
          ArgsNode(<<ArgNode("x", <<ArgTypeFoo, DefaultValue(HugeInt)>>)>>)>>),
      FieldNode("bar", <<TypeFoo, ArgsNode(<<ArgNode(NoName, <<ArgTypeBaz>>)>>)>>),
      FieldNode("bar", <<Wrap("type", <<ErrorNode>>, <<5, 8>>)>>) }

\* `x: Foo`, `y: Baz`, `: Baz` and `x`
InputShapes ==
    { ArgNode("x", <<ArgTypeFoo>>), ArgNode("y", <<ArgTypeBaz>>),
      ArgNode(NoName, <<ArgTypeBaz>>), ArgNode("x", <<>>) }

MemberShapes == {NamedType("Foo"), NamedType("Baz")}

VariantShapes ==
    { BNode("enum_value_definition", NoName, <<0, 19>>,
            <<BNode("enum_value", "A", <<0, 1>>, <<>>)>>),
      BNode("enum_value_definition", NoName, <<0, 19>>, <<>>) }

\* the k-th sub-item of a body is written 20 columns after the one before
Place(shapes) == [k \in 1..Len(shapes) |-> Shift(shapes[k], 20 * (k - 1))]

BodyNode(kind, list_kind, shapes) ==
    BNode(kind, "Foo", <<0, 20 * MaxFields>>,
          <<BNode(list_kind, NoName, <<0, 20 * MaxFields>>, Place(shapes))>>)

BodyNodes ==
    {BodyNode("object_type_definition", "fields_definition", shapes) :
        shapes \in SeqsUpTo(FieldShapes, MaxFields)}
    \cup {BodyNode("input_object_type_definition", "input_fields_definition", shapes) :
             shapes \in SeqsUpTo(InputShapes, MaxFields)}
    \cup {BodyNode("union_type_definition", "union_member_types", shapes) :
             shapes \in SeqsUpTo(MemberShapes, MaxFields)}
    \cup {BodyNode("enum_type_definition", "enum_values_definition", shapes) :
             shapes \in SeqsUpTo(VariantShapes, MaxFields)}
    \cup {BNode("interface_type_definition", "Foo", <<0, 1>>, <<>>),
          BNode("scalar_type_definition", "Foo", <<0, 1>>, <<>>)}

BodyTrees == {<<ObjFoo>>, <<ObjBar>>}

\* a body is lowered after an edit, not after another body
BodyIdle == last.op # "lower_typedef"

\* BodyCtxt::new(db, file).lower_typedef(node)
query_lower_typedef(f, node) ==
    /\ BodyIdle
    /\ file_data[f] # NoData
    /\ \A g \in neighborhood(f) : file_data[g] # NoData
    /\ last' = [NoOp EXCEPT !.op = "lower_typedef", !.file = f, !.node = node,
                    !.out = lower_typedef(f, node)]
    /\ UNCHANGED <<input_vars, other, salsa_vars>>

NextBody ==
    \/ \E projs \in IdeConfigs : set_projects(projs)
    \/ \E f \in FileIds, data \in BodyTrees : set_file_data(f, data)
    \/ \E f \in FileIds, node \in BodyNodes : query_lower_typedef(f, node)

SpecBody == Init /\ [][NextBody]_vars

----------------------------------------------------------------------------
(* Name-at-point and goto-definition (Snapshot::name_at, goto_definition)  *)
(* on a type reference written at row RefRow of a file                     *)

\* the row of the type reference
RefRow == 1

\* the points of the cursor: on the row of the reference, from before it to
\* after it, and at the column of the name on the rows above and below
Points == {<<RefRow, c>> : c \in 3..11} \cup {<<RefRow - 1, 6>>, <<RefRow + 1, 6>>}

\* `Foo`, `Foo!`, `[Foo!]!`, `[Baz]` and `[]`
DefRefs ==
    { TypeOf(NamedType("Foo")),
      TypeOf(NonNullType(NamedType("Foo"))),
      TypeOf(NonNullType(ListType(TypeOf(NonNullType(NamedType("Foo")))))),
      TypeOf(ListType(TypeOf(NamedType("Baz")))),
      TypeOf(EmptyListType) }

\* Point: PartialOrd by (row, column)
PointLe(p, q) == p[1] < q[1] \/ (p[1] = q[1] /\ p[2] <= q[2])
PointLt(p, q) == p[1] < q[1] \/ (p[1] = q[1] /\ p[2] < q[2])

PointRange(node) == [start_point |-> <<RefRow, node.range[1]>>,
                     end_point |-> <<RefRow, node.range[2]>>]

\* a range that would hold its end point
contains_closed(range, point) ==
    PointLe(range.start_point, point) /\ PointLe(point, range.end_point)

\* RangeExt::contains
contains(range, point) ==
    PointLe(range.start_point, point) /\ PointLt(point, range.end_point)

\* Snapshot::name_at: the name node that contains the point
name_at(node, point) ==
    IF NameNodeOf(node) # <<>> /\ contains(PointRange(NameNodeOf(node)[1]), point)
    THEN NameNodeOf(node)[1].name
    ELSE NoName

\* the range of the name of an item: the first unit of its definition
NameRange(item) == <<item.range[1], item.range[1] + 1>>

\* Location of an ItemRes
LocationOfRes(res) ==
    [file |-> res.file,
     range |-> NameRange(items(file_data[res.file]).items[res.idx + 1])]

\* a goto that would only answer on the characters of the name
goto_definition_on_name(file, node, point) ==
    IF name_at(node, point) # NoName
    THEN LET found == resolve_item(file, name_at(node, point)).items
         IN  [k \in 1..Len(found) |-> LocationOfRes(found[k])]
    ELSE <<>>

\* Snapshot::goto_definition: the resolutions of the type at the point
goto_definition(file, node, point) ==
    IF ~contains(PointRange(node), point) THEN <<>>
    ELSE LET r == lower_type(file, node, <<>>)
         IN  IF ~r.some THEN <<>>
             ELSE LET found == item_resolutions(r.ty)
                  IN  [k \in 1..Len(found) |-> LocationOfRes(found[k])]

\* a directive definition spelled as the type Foo: `directive @Foo on OBJECT`
DirFoo == DirDef("Foo", <<"OBJECT">>)

DefNodes == {ObjFoo, ExtObjFoo, ObjBar, DirFoo}
DefTrees == {<<node>> : node \in DefNodes} \cup {<<ObjFoo, ExtObjFoo>>, <<ObjFoo, DirFoo>>}

\* the cursor is moved after an edit or a resolve, not after another move
CursorIdle == last.op \notin {"name_at", "goto_definition"}

query_name_at(f, node, point) ==
    /\ CursorIdle
    /\ file_data[f] # NoData
    /\ last' = [NoOp EXCEPT !.op = "name_at", !.file = f, !.node = node,
                    !.point = point, !.name = name_at(node, point)]
    /\ UNCHANGED <<input_vars, other, salsa_vars>>

query_goto_definition(f, node, point) ==
    /\ CursorIdle
    /\ file_data[f] # NoData
    /\ \A g \in neighborhood(f) : file_data[g] # NoData
    /\ last' = [NoOp EXCEPT !.op = "goto_definition", !.file = f, !.node = node,
                    !.point = point, !.locations = goto_definition(f, node, point)]
    /\ UNCHANGED <<input_vars, other, salsa_vars>>

NextDef ==
    \/ \E projs \in IdeConfigs : set_projects(projs)
    \/ \E f \in FileIds, data \in DefTrees : set_file_data(f, data)
    \/ \E f \in FileIds, node \in DefRefs, point \in Points : query_name_at(f, node, point)
    \/ \E f \in FileIds, node \in DefRefs, point \in Points :
           query_goto_definition(f, node, point)
    \/ \E f \in FileIds, name \in Names : query_resolve(f, name)

SpecDef == Init /\ [][NextDef]_vars

----------------------------------------------------------------------------
(* NodeExt::sole_named_child on a node with any named children             *)

\* most named children of a node
MaxChildren == 3

ChildNodes == {ErrorNode, NamedType("Foo"), NamedType("Baz"), EmptyListType}

\* a `type` node with the given named children
open_node(children) ==
    /\ last.op = "init"
    /\ last' = [NoOp EXCEPT !.op = "node", !.node = Wrap("type", children, <<4, 9>>)]
    /\ UNCHANGED <<input_vars, other, salsa_vars>>

query_sole_named_child ==
    /\ last.op = "node"
    /\ last' = [last EXCEPT !.op = "sole_named_child", !.out = sole_named_child(last.node)]
    /\ UNCHANGED <<input_vars, other, salsa_vars>>

NextSyntax ==
    \/ \E children \in SeqsUpTo(ChildNodes, MaxChildren) : open_node(children)
    \/ query_sole_named_child

SpecSyntax == Init /\ [][NextSyntax]_vars

----------------------------------------------------------------------------
(* The salsa database of gqls-db: memoized queries validated on demand,    *)
(* snapshots that hold the query lock, writes that wait for it, and        *)
(* cancellation of the queries in flight                                   *)

\* the writes of the handle: one project of both files; the first file is
\* edited inside a body and renamed, the second one defines the same name
SalsaConfigs == { [a |-> {1, 2}, b |-> {}] }
SalsaTrees(f) == IF f = 1 THEN { <<ObjFoo>>, <<ObjFooLong>>, <<ObjBar>> } ELSE { <<ObjFoo>> }

\* the dependency of resolve on files() is written 0, the one on
\* item_map(path) is written path
FilesDep == 0

\* resolve calls db.item_map(path): it is run again when the map of a path
\* it has read comes out different
resolve_dep_on_items(old_items, new_items, old_map, new_map) == old_items # new_items

resolve_dep_changed(old_items, new_items, old_map, new_map) == old_map # new_map

Flag(m, dep) ==
    [n \in SalsaNames |->
        IF m.resolve[n].state = "memo"
           /\ (dep = FilesDep \/ \E k \in 1..Len(m.resolve[n].deps) : m.resolve[n].deps[k] = dep)
        THEN [m.resolve[n] EXCEPT !.changed = @ \cup {dep}]
        ELSE m.resolve[n]]

\* fetch of files(): run again when projects was written since; an equal
\* set is backdated, the new set instance (and its iteration order) is kept
FetchFiles(m, order) ==
    IF m.files.has /\ ~m.files.dirty
    THEN [memo |-> m, order |-> files_order]
    ELSE LET new == files_of(projects)
             changed == m.files.has /\ m.files.val # new
             m1 == [m EXCEPT !.files = [has |-> TRUE, val |-> new, dirty |-> FALSE]]
         IN  [memo |-> IF changed THEN [m1 EXCEPT !.resolve = Flag(m, FilesDep)] ELSE m1,
              order |-> order]

\* fetch of item_map(f): items(f) is run again when file_data(f) was written
\* since, item_map(f) when items(f) came out different
FetchItemMap(m, f) ==
    LET it == m.items[f]
        it_new == IF it.has /\ ~it.dirty THEN it
                  ELSE [has |-> TRUE, val |-> items(file_data[f]), dirty |-> FALSE]
        it_changed == ~it.has \/ it.val # it_new.val
        im == m.item_map[f]
        im_new == IF im.has /\ ~it_changed THEN im
                  ELSE [has |-> TRUE, val |-> item_map_from(it_new.val.items, 1, <<>>)]
        dep_changed == im.has /\ resolve_dep_changed(it.val, it_new.val, im.val, im_new.val)
        m1 == [m EXCEPT !.items[f] = it_new, !.item_map[f] = im_new]
    IN  IF dep_changed THEN [m1 EXCEPT !.resolve = Flag(m, f)] ELSE m1

RECURSIVE FetchItemMaps(_, _, _)
FetchItemMaps(m, deps, k) ==
    IF k > Len(deps) THEN m
    ELSE FetchItemMaps(FetchItemMap(m, deps[k]), deps, k + 1)

\* the state a slot would be left in if the unwinding query stored its vector
UnwoundKeepingVector(slot, acc) ==
    [slot EXCEPT !.state = "memo", !.val = acc, !.changed = {}, !.owner = 0]

\* the state a slot is left in when the query that was computing it unwinds
Unwound(slot, acc) == NotComputed

\* a storage handle that would not hold the query lock
QueryLockNeverHeld == FALSE

\* a snapshot holds the read side of the query lock until it is dropped
QueryLockHeld == \E s \in SnapIds : snaps[s].status # "none"

SinceAfter(slot, kind) ==
    IF slot.state # "memo" THEN slot
    ELSE [slot EXCEPT !.since = IF kind = "body_only" /\ @ # "other" THEN "body_only" ELSE "other"]

RECURSIVE VerifyDeps(_, _, _, _)
\* the item maps a memoized resolve(n) has read are validated in the order
\* they were read, up to the first one that changed
VerifyDeps(m, n, deps, k) ==
    IF k > Len(deps) \/ m.resolve[n].changed # {} THEN m
    ELSE VerifyDeps(FetchItemMap(m, deps[k]), n, deps, k + 1)

\* set_projects on the handle: pending_revision is bumped at once, so the
\* queries in flight see it at their next fetch; the write waits for the lock
begin_set_projects(projs) ==
    /\ pending.op = "none"
    /\ pending' = [NoWrite EXCEPT !.op = "set_projects", !.projs = projs]
    /\ cancel_flag' = TRUE
    /\ UNCHANGED <<input_vars, last, other, memo, snaps, hist>>

begin_set_file_data(f, data) ==
    /\ pending.op = "none"
    /\ TotalItems([file_data EXCEPT ![f] = data]) <= MaxItems
    /\ pending' = [NoWrite EXCEPT !.op = "set_file_data", !.file = f, !.data = data]
    /\ cancel_flag' = TRUE
    /\ UNCHANGED <<input_vars, last, other, memo, snaps, hist>>

\* a request that would ask for the write without bumping pending_revision
request_cancellation_unsignalled ==
    /\ pending.op = "none"
    /\ pending' = [NoWrite EXCEPT !.op = "synthetic_write"]
    /\ UNCHANGED <<input_vars, last, other, cancel_flag, memo, snaps, hist>>

\* salsa_runtime_mut().synthetic_write(Durability::LOW): a write of no input
request_cancellation ==
    /\ pending.op = "none"
    /\ pending' = [NoWrite EXCEPT !.op = "synthetic_write"]
    /\ cancel_flag' = TRUE
    /\ UNCHANGED <<input_vars, last, other, memo, snaps, hist>>

\* a synthetic write that would forget the memos of resolve
apply_write_forgetting ==
    /\ pending.op # "none"
    /\ ~QueryLockHeld
    /\ pending' = NoWrite
    /\ cancel_flag' = FALSE
    /\ CASE pending.op = "set_projects" ->
              /\ projects' = pending.projs
              /\ memo' = [memo EXCEPT !.files.dirty = memo.files.has,
                             !.resolve = [n \in SalsaNames |-> SinceAfter(memo.resolve[n], "other")]]
              /\ UNCHANGED file_data
         [] pending.op = "set_file_data" ->
              LET f == pending.file
                  kind == IF file_data[f] # NoData /\ BodyOnlyEdit(file_data[f], pending.data)
                          THEN "body_only" ELSE "other"
              IN  /\ file_data' = [file_data EXCEPT ![f] = pending.data]
                  /\ memo' = [memo EXCEPT !.items[f].dirty = memo.items[f].has,
                                 !.resolve = [n \in SalsaNames |-> SinceAfter(memo.resolve[n], kind)]]
                  /\ UNCHANGED projects
         [] pending.op = "synthetic_write" ->
              /\ memo' = [memo EXCEPT !.resolve = [n \in SalsaNames |-> NotComputed]]
              /\ UNCHANGED <<projects, file_data>>
    /\ UNCHANGED <<files_order, last, other, snaps, hist>>

\* the write gets the lock once no snapshot is left and is applied: the
\* memos that read the input are to be validated at their next fetch
apply_write ==
    /\ pending.op # "none"
    /\ ~QueryLockHeld
    /\ pending' = NoWrite
    /\ cancel_flag' = FALSE
    /\ CASE pending.op = "set_projects" ->
              /\ projects' = pending.projs
              /\ memo' = [memo EXCEPT !.files.dirty = memo.files.has,
                             !.resolve = [n \in SalsaNames |-> SinceAfter(memo.resolve[n], "other")]]
              /\ UNCHANGED file_data
         [] pending.op = "set_file_data" ->
              LET f == pending.file
                  kind == IF file_data[f] # NoData /\ BodyOnlyEdit(file_data[f], pending.data)
                          THEN "body_only" ELSE "other"
              IN  /\ file_data' = [file_data EXCEPT ![f] = pending.data]
                  /\ memo' = [memo EXCEPT !.items[f].dirty = memo.items[f].has,
                                 !.resolve = [n \in SalsaNames |-> SinceAfter(memo.resolve[n], kind)]]
                  /\ UNCHANGED projects
         [] pending.op = "synthetic_write" ->
              UNCHANGED <<projects, file_data, memo>>
    /\ UNCHANGED <<files_order, last, other, snaps, hist>>

\* GqlsDatabase::snapshot: storage.snapshot() takes the read side of the lock
snapshot(s) ==
    /\ pending.op = "none"
    /\ snaps[s].status = "none"
    /\ snaps' = [snaps EXCEPT ![s] = [NoSnap EXCEPT !.status = "idle",
                     !.at = [projects |-> projects, file_data |-> file_data]]]
    /\ UNCHANGED <<input_vars, last, other, pending, cancel_flag, memo, hist>>

drop_snapshot(s) ==
    /\ snaps[s].status \in {"idle", "done", "cancelled"}
    /\ snaps' = [snaps EXCEPT ![s] = NoSnap]
    /\ UNCHANGED <<input_vars, last, other, pending, cancel_flag, memo, hist>>

start_resolve(s, n) ==
    /\ snaps[s].status = "idle"
    /\ Ready
    /\ snaps' = [snaps EXCEPT ![s].status = "running", ![s].name = n, ![s].pc = "resolve"]
    /\ UNCHANGED <<input_vars, last, other, pending, cancel_flag, memo, hist>>

\* unwind_if_cancelled at a fetch: the query unwinds, the slot it was
\* computing is released and its vector is dropped
unwind(s) ==
    /\ snaps[s].status = "running"
    /\ cancel_flag
    /\ LET n == snaps[s].name
           slot == memo.resolve[n]
           owns == slot.state = "progress" /\ slot.owner = s
       IN  /\ memo' = IF owns THEN [memo EXCEPT !.resolve[n] = Unwound(slot, snaps[s].acc)]
                      ELSE memo
           /\ hist' = [unwound_partial |->
                          hist.unwound_partial \/ (owns /\ snaps[s].acc # <<>>)]
           /\ snaps' = [snaps EXCEPT ![s] = [NoSnap EXCEPT !.status = "cancelled",
                            !.name = n, !.at = snaps[s].at]]
    /\ UNCHANGED <<input_vars, last, other, pending, cancel_flag>>

Done(s, value, was_reused, was_reexec, why) ==
    [NoSnap EXCEPT !.status = "done", !.name = snaps[s].name, !.res = value,
        !.reused = was_reused, !.reexec = was_reexec, !.since = why, !.at = snaps[s].at]

\* fetch of resolve(n): a memo whose dependencies are unchanged is returned
\* as it is; otherwise the function runs (again), the slot being in progress
fetch_resolve(s) ==
    /\ snaps[s].status = "running"
    /\ snaps[s].pc = "resolve"
    /\ ~cancel_flag
    /\ LET n == snaps[s].name
           slot == memo.resolve[n]
       IN  CASE slot.state = "none" ->
                  /\ memo' = [memo EXCEPT !.resolve[n] =
                                 [slot EXCEPT !.state = "progress", !.owner = s]]
                  /\ snaps' = [snaps EXCEPT ![s].pc = "files"]
                  /\ UNCHANGED files_order
             [] slot.state = "memo" ->
                  \E order \in Orders(files_of(projects)) :
                    LET r == FetchFiles(memo, order)
                        m2 == VerifyDeps(r.memo, n, slot.deps, 1)
                        slot2 == m2.resolve[n]
                    IN  /\ files_order' = r.order
                        /\ IF slot2.changed = {}
                           THEN /\ memo' = [m2 EXCEPT !.resolve[n].since = "clean"]
                                /\ snaps' = [snaps EXCEPT ![s] =
                                                Done(s, slot.val, TRUE, FALSE, slot.since)]
                           ELSE /\ memo' = [m2 EXCEPT !.resolve[n] =
                                               [slot2 EXCEPT !.state = "progress", !.owner = s]]
                                /\ snaps' = [snaps EXCEPT ![s].pc = "files",
                                                ![s].reexec = TRUE, ![s].since = slot.since]
             [] slot.state = "progress" -> FALSE
    /\ UNCHANGED <<projects, file_data, last, other, pending, cancel_flag, hist>>

Memoized(value, deps) ==
    [state |-> "memo", val |-> value, deps |-> deps, changed |-> {},
     since |-> "clean", owner |-> 0]

\* db.files() in resolve
fetch_files(s) ==
    /\ snaps[s].status = "running"
    /\ snaps[s].pc = "files"
    /\ ~cancel_flag
    /\ \E order \in Orders(files_of(projects)) :
         LET n == snaps[s].name
             r == FetchFiles(memo, order)
         IN  /\ files_order' = r.order
             /\ IF r.order = <<>>
                THEN /\ memo' = [r.memo EXCEPT !.resolve[n] = Memoized(<<>>, <<>>)]
                     /\ snaps' = [snaps EXCEPT ![s] =
                                     Done(s, <<>>, FALSE, snaps[s].reexec, snaps[s].since)]
                ELSE /\ memo' = r.memo
                     /\ snaps' = [snaps EXCEPT ![s].pc = "item_map", ![s].i = 1,
                                     ![s].order = r.order]
    /\ UNCHANGED <<projects, file_data, last, other, pending, cancel_flag, hist>>

\* db.item_map(path) in the loop of resolve, and the return after the last path
fetch_item_map(s) ==
    /\ snaps[s].status = "running"
    /\ snaps[s].pc = "item_map"
    /\ ~cancel_flag
    /\ file_data[snaps[s].order[snaps[s].i]] # NoData
    /\ LET n == snaps[s].name
           path == snaps[s].order[snaps[s].i]
           m1 == FetchItemMap(memo, path)
           map == m1.item_map[path].val
           resolutions == IF n \in DOMAIN map
                          THEN snaps[s].acc \o Lift(path, map[n])
                          ELSE snaps[s].acc
       IN  IF snaps[s].i = Len(snaps[s].order)
           THEN /\ memo' = [m1 EXCEPT !.resolve[n] = Memoized(resolutions, snaps[s].order)]
                /\ snaps' = [snaps EXCEPT ![s] =
                                Done(s, resolutions, FALSE, snaps[s].reexec, snaps[s].since)]
           ELSE /\ memo' = m1
                /\ snaps' = [snaps EXCEPT ![s].i = @ + 1, ![s].acc = resolutions]
    /\ UNCHANGED <<input_vars, last, other, pending, cancel_flag, hist>>

NextSalsa ==
    \/ \E projs \in SalsaConfigs : begin_set_projects(projs)
    \/ \E f \in FileIds : \E data \in SalsaTrees(f) : begin_set_file_data(f, data)
    \/ request_cancellation
    \/ apply_write
    \/ \E s \in SnapIds : snapshot(s)
    \/ \E s \in SnapIds : drop_snapshot(s)
    \/ \E s \in SnapIds, n \in SalsaNames : start_resolve(s, n)
    \/ \E s \in SnapIds : unwind(s)
    \/ \E s \in SnapIds : fetch_resolve(s)
    \/ \E s \in SnapIds : fetch_files(s)
    \/ \E s \in SnapIds : fetch_item_map(s)

SpecSalsa == Init /\ [][NextSalsa]_vars

----------------------------------------------------------------------------
(* Properties of the resolver and the item map *)

Elems(s) == {s[i] : i \in 1..Len(s)}

NoRepeat(s) == \A i, j \in 1..Len(s) : i # j => s[i] # s[j]

\* the list a name has in the item map of a file (empty when it has no key)
Entry(data, name) ==
    LET map == item_map(data) IN IF name \in DOMAIN map THEN map[name] ELSE <<>>

SameProject(F, H) == \E p \in ProjectNames : {F, H} \subseteq projects[p]

\* C1: resolve(F, N) holds an item reference R exactly when R.file is in the
\* neighborhood of F and item_map(R.file)[N] holds R.idx, each reference once;
\* a file sharing no project with F contributes nothing.
C1_ResolveIsNeighborhood ==
    last.op = "resolve" =>
        /\ NoRepeat(last.res)
        /\ \A f \in FileIds, idx \in 0..(MaxItems - 1) :
             ([file |-> f, idx |-> idx] \in Elems(last.res))
               <=> /\ f \in neighborhood(last.file)
                   /\ file_data[f] # NoData
                   /\ idx \in Elems(Entry(file_data[f], last.name))

\* C3: a set_file_data whose new text has the same root-level item names in
\* the same order as the previous text leaves item_map of that file equal.
C3_SameNamesSameItemMap ==
    [][\A f \in FileIds :
          (last'.op = "set_file_data" /\ last'.file = f /\ last'.same_names)
            => item_map(file_data'[f]) = item_map(file_data[f])]_vars

C5_Edited(F, H) ==
    /\ last'.op = "set_file_data" /\ last'.file = F /\ last'.had_data
    /\ H # F
    /\ SameProject(F, H)
    /\ Ready

\* C5 as stated: a set_file_data on F alters neither item_map(H) nor
\* resolve(H, N), for every other file H of a project of F and every name N.
C5_EditLeavesOtherFilesResolve ==
    [][\A F, H \in FileIds, N \in Names :
          C5_Edited(F, H)
            => /\ item_map(file_data'[H]) = item_map(file_data[H])
               /\ resolve_in(files_order', file_data', N)
                    = resolve_in(files_order, file_data, N)]_vars

\* C5 amended: a set_file_data on F does not alter item_map(H), and leaves
\* resolve(H, N) with the same item references for every name N whose list in
\* item_map(F) is the same before and after the edit.
C5_EditLeavesOtherFilesItemMap ==
    [][\A F, H \in FileIds :
          C5_Edited(F, H)
            => /\ item_map(file_data'[H]) = item_map(file_data[H])
               /\ \A N \in Names :
                    Entry(file_data'[F], N) = Entry(file_data[F], N)
                      => Elems(resolve_in(files_order', file_data', N))
                           = Elems(resolve_in(files_order, file_data, N))]_vars

C5_Witness ==
    /\ last.op = "set_file_data" /\ last.file = 1 /\ last.had_data
    /\ ~last.same_names
    /\ SameProject(1, 2)
    /\ Ready
    /\ Entry(file_data[1], "Bar") # <<>>
    /\ resolve("Foo") # <<>>

\* C9: item_map maps each name to the non-empty list of the arena indices of
\* exactly the items of the file that have the name, in arena order; every
\* index of the file is under exactly one key.
C9_ItemMapListsEveryItem ==
    last.op = "item_map" =>
        LET arena == items(file_data[last.file]).items
            map == last.map
        IN  /\ DOMAIN map = {arena[i].name : i \in 1..Len(arena)}
            /\ \A n \in DOMAIN map :
                 /\ map[n] # <<>>
                 /\ \A i, j \in 1..Len(map[n]) : i < j => map[n][i] < map[n][j]
                 /\ Elems(map[n]) = {i - 1 : i \in {k \in 1..Len(arena) : arena[k].name = n}}
            /\ \A i \in 0..(Len(arena) - 1) :
                 Cardinality({n \in DOMAIN map : i \in Elems(map[n])}) = 1

C9_Witness ==
    /\ last.op = "item_map"
    /\ \E n \in DOMAIN last.map : Len(last.map[n]) >= 2

\* C10: resolve(F, N) lists its references in ascending (file-id, idx) order.
C10_ResolveSortedByFileIdx ==
    last.op = "resolve" =>
        \A i, j \in 1..Len(last.res) :
            i < j => \/ last.res[i].file < last.res[j].file
                     \/ /\ last.res[i].file = last.res[j].file
                        /\ last.res[i].idx < last.res[j].idx

SameFileData(fd1, fd2) ==
    \A f \in FileIds :
        IF fd1[f] # NoData /\ fd2[f] # NoData THEN fd1[f] = fd2[f]
        ELSE ~(fd1[f] # NoData) /\ ~(fd2[f] # NoData)

\* C8: two databases that hold the same projects and the same file_data for
\* every file return the same result for every query, the order of the
\* elements of resolve(F, N) included.
C8_SameInputsSameResults ==
    (projects = other.projects /\ Ready /\ SameFileData(file_data, other.file_data)) =>
        /\ \A f \in FileIds :
             file_data[f] # NoData => item_map(file_data[f]) = item_map(other.file_data[f])
        /\ \A N \in Names :
             resolve_in(files_order, file_data, N)
               = resolve_in(other.files_order, other.file_data, N)

----------------------------------------------------------------------------
(* Properties of the salsa database *)

\* the values resolve(n) can have over the inputs, one for each iteration
\* order of files()
FreshResolves(projs, fd, n) == {resolve_in(order, fd, n) : order \in Orders(files_of(projs))}

IsPrefix(a, b) == Len(a) <= Len(b) /\ \A k \in 1..Len(a) : a[k] = b[k]

\* C2: as long as a snapshot lives, the inputs read through it are the
\* projects and the file_data of the revision at which snapshot() was
\* called: no write is applied under it, what a query running on it has
\* gathered so far is the beginning of a resolve over those inputs, and the
\* value it returns is a resolve over those inputs.
C2_SnapshotReadsItsRevision ==
    \A s \in SnapIds :
        snaps[s].status # "none" =>
            /\ projects = snaps[s].at.projects
            /\ SameFileData(file_data, snaps[s].at.file_data)
            /\ snaps[s].status = "running" =>
                 \E r \in FreshResolves(snaps[s].at.projects, snaps[s].at.file_data, snaps[s].name) :
                     IsPrefix(snaps[s].acc, r)
            /\ snaps[s].status = "done" =>
                 snaps[s].res \in
                     FreshResolves(snaps[s].at.projects, snaps[s].at.file_data, snaps[s].name)

\* a read has returned definitions through a snapshot and a write that would
\* change the answer has been asked for since
C2_Witness ==
    \E s \in SnapIds :
        /\ snaps[s].status = "done"
        /\ snaps[s].res # <<>>
        /\ pending.op = "set_file_data"
        /\ RootNames(pending.data) # RootNames(file_data[pending.file])

\* C4: resolve(n) is run again only after a write other than an edit inside
\* a type body: when every write since the memo was last validated is such
\* an edit, the memo is returned as it is, and it is a resolve over the
\* inputs of the read.
C4_BodyEditKeepsResolveMemo ==
    \A s \in SnapIds :
        /\ (snaps[s].status \in {"running", "done"} /\ snaps[s].reexec) =>
               snaps[s].since = "other"
        /\ (snaps[s].status = "done" /\ snaps[s].reused) =>
               snaps[s].res \in FreshResolves(projects, file_data, snaps[s].name)

\* a memo that holds definitions was returned after an edit inside a body
C4_Witness ==
    \E s \in SnapIds :
        /\ snaps[s].status = "done"
        /\ snaps[s].reused
        /\ snaps[s].since = "body_only"
        /\ snaps[s].res # <<>>

\* C6: a slot is in progress only while the query that computes it runs,
\* and once a query has been unwound part-way through its loop every value
\* a read returns is a resolve over the inputs, as if that query had never
\* started.
C6_UnwindLeavesNoPartialState ==
    /\ \A n \in SalsaNames :
         memo.resolve[n].state = "progress" =>
             /\ snaps[memo.resolve[n].owner].status = "running"
             /\ snaps[memo.resolve[n].owner].name = n
             /\ snaps[memo.resolve[n].owner].pc # "resolve"
    /\ hist.unwound_partial =>
         \A s \in SnapIds :
             snaps[s].status = "done" =>
                 snaps[s].res \in FreshResolves(projects, file_data, snaps[s].name)

\* after a query was unwound with a part of its vector gathered, a read
\* has computed resolve anew and returned definitions
C6_Witness ==
    /\ hist.unwound_partial
    /\ \E s \in SnapIds :
         /\ snaps[s].status = "done"
         /\ ~snaps[s].reused
         /\ Len(snaps[s].res) > 1

\* C7: once request_cancellation() was called, the next step of every query
\* in flight, on whichever snapshot, is the cancellation outcome.
C7_CancellationReachesEverySnapshot ==
    [][\A s \in SnapIds :
          (pending.op = "synthetic_write" /\ snaps[s].status = "running"
              /\ snaps'[s] # snaps[s]) => snaps'[s].status = "cancelled"]_vars

\* the queries of two snapshots were cancelled by one request_cancellation()
C7_Witness ==
    /\ pending.op = "synthetic_write"
    /\ \E s, t \in SnapIds :
         s # t /\ snaps[s].status = "cancelled" /\ snaps[t].status = "cancelled"

\* the values a read of resolve(n) can return: the memo when no input was
\* written since it was validated, a resolve over the inputs otherwise;
\* none while a file of files() has no data, when no read can be asked
WouldReturn(m, projs, fd, n) ==
    IF m.resolve[n].state = "memo" /\ m.resolve[n].since = "clean"
    THEN {m.resolve[n].val}
    ELSE IF \A f \in files_of(projs) : fd[f] # NoData
    THEN FreshResolves(projs, fd, n)
    ELSE {}

\* C27: request_cancellation() changes no input: from the call until its
\* write is applied projects and every file_data stay as they are, and so
\* do the values resolve returns; a read that ends while no input was
\* written since the memo was validated returns the memo
C27_CancellationChangesNoInput ==
    [][/\ (pending.op = "synthetic_write" \/ pending'.op = "synthetic_write") =>
            /\ projects' = projects
            /\ SameFileData(file_data', file_data)
            /\ \A n \in SalsaNames :
                 WouldReturn(memo', projects', file_data', n) =
                     WouldReturn(memo, projects, file_data, n)
       /\ \A s \in SnapIds :
            (snaps[s].status = "running" /\ snaps'[s].status = "done"
                /\ memo.resolve[snaps[s].name].state = "memo"
                /\ memo.resolve[snaps[s].name].since = "clean") =>
                snaps'[s].res = memo.resolve[snaps[s].name].val]_vars

\* request_cancellation() was called while resolve had a memo of two
\* definitions, and a query in flight was cancelled by it
C27_Witness ==
    /\ pending.op = "synthetic_write"
    /\ \E n \in SalsaNames :
         /\ memo.resolve[n].state = "memo"
         /\ memo.resolve[n].since = "clean"
         /\ Len(memo.resolve[n].val) = 2
    /\ \E s \in SnapIds : snaps[s].status = "cancelled"

----------------------------------------------------------------------------
(* Properties of the item skeleton lowering *)

\* the root nodes that ItemCtxt::lower_item gives a directive item for
RECURSIVE EmittedDirectives(_, _)
EmittedDirectives(tree, i) ==
    IF i > Len(tree) THEN <<>>
    ELSE IF tree[i].def = "directive_definition" /\ tree[i].name # NoName
            /\ tree[i].has_locations
         THEN <<i>> \o EmittedDirectives(tree, i + 1)
         ELSE EmittedDirectives(tree, i + 1)

Tokens(node) == {node.locations[k] : k \in 1..Len(node.locations)}

\* C17: the location bitset of a lowered directive definition has the flag
\* of a location if and only if the token of that location is in the list
\* after `on`, whatever the order and the repetitions of the tokens.
C17_LocationsAreTheListedFlags ==
    (last.op = "lower" /\ last.out # Panic) =>
        LET dirs == EmittedDirectives(last.tree, 1) IN
        /\ Len(last.out.directives) = Len(dirs)
        /\ \A j \in 1..Len(dirs) :
             \A l \in StandardLocations :
                 l \in last.out.directives[j].locations
                   <=> l \in Tokens(last.tree[dirs[j]])

\* a directive was lowered whose list repeats a token around another one
C17_Witness ==
    /\ last.op = "lower"
    /\ last.out # Panic
    /\ Len(last.tree) = 1
    /\ last.tree[1].locations = <<"OBJECT", "FIELD_DEFINITION", "OBJECT">>
    /\ Len(last.out.directives) = 1

HasUnknownToken(node) ==
    /\ node.def = "directive_definition" /\ node.name # NoName /\ node.has_locations
    /\ \E t \in Tokens(node) : t \notin StandardLocations \cup {NoToken}

\* the root nodes that have a name and are a type definition, a type
\* extension or a directive definition
RECURSIVE NamedItemNodes(_, _)
NamedItemNodes(tree, i) ==
    IF i > Len(tree) THEN <<>>
    ELSE IF tree[i].def \in {"type_definition", "type_extension", "directive_definition"}
            /\ tree[i].name # NoName
         THEN <<i>> \o NamedItemNodes(tree, i + 1)
         ELSE NamedItemNodes(tree, i + 1)

RECURSIVE WithoutUnknownToken(_, _)
WithoutUnknownToken(tree, i) ==
    IF i > Len(tree) THEN <<>>
    ELSE IF HasUnknownToken(tree[i]) THEN WithoutUnknownToken(tree, i + 1)
         ELSE <<tree[i]>> \o WithoutUnknownToken(tree, i + 1)

ItemNames(out) == [k \in 1..Len(out.items) |-> out.items[k].name]

\* C18: a directive definition with a location token outside the 11
\* standard ones gives no item and does not abort the lowering of its file:
\* the items of the file are those of the file without that directive.
C18_UnknownLocationDropsOnlyTheDirective ==
    (last.op = "lower" /\ \E i \in 1..Len(last.tree) : HasUnknownToken(last.tree[i])) =>
        /\ last.out # Panic
        /\ ItemNames(last.out) = ItemNames(lower(WithoutUnknownToken(last.tree, 1)))

\* C19: the lowering emits one item for every root node that has a name
\* and is a type definition, a type extension of any kind or a directive
\* definition, in source order, and skips the other nodes.
C19_OneItemPerNamedRootNode ==
    (last.op = "lower" /\ last.out # Panic) =>
        LET named == NamedItemNodes(last.tree, 1) IN
        /\ Len(last.out.items) = Len(named)
        /\ \A k \in 1..Len(named) : last.out.items[k].name = last.tree[named[k]].name

----------------------------------------------------------------------------
(* Properties of the completion context inference *)

\* the columns between a column p and the cursor hold nodes of no category
PlainBetween(row, p, at) ==
    \A q \in (p + 1)..at :
        /\ NodeAt(row, q) # NoNode
        /\ ~Notable(NodeAt(row, q))
        /\ NodeAt(row, q) # "input_value_definition"

\* the categories of the completion context and the context of each
StatedNotable(kind) ==
    kind \in TypeKinds \cup {"fields_definition", "field_definition",
                             "input_fields_definition", "input_value_definition",
                             "union_member_types"}

StatedContextOf(kind) ==
    CASE kind \in TypeKinds -> Directive(LocationOf(kind))
      [] kind \in {"fields_definition", "field_definition"} -> Field
      [] kind \in {"input_fields_definition", "input_value_definition"} -> InputField
      [] kind = "union_member_types" -> UnionMembers

\* C12: the inference stops at the first position it scans, from the cursor
\* leftwards, whose node is a fields or field-definition node (Field), an
\* input-fields or input-value node (InputField), a union-member-types node
\* (UnionMembers) or a type definition or extension (Directive of its
\* location); it scans no further column and the context is that one.
C12_FirstNotableNodeDecides ==
    last.op = "infer_context" =>
        \A p \in Columns :
            (p <= last.at /\ last.at - p < ScanWidth
                /\ StatedNotable(NodeAt(last.row, p))
                /\ PlainBetween(last.row, p, last.at))
              => /\ last.context = StatedContextOf(NodeAt(last.row, p))
                 /\ last.column = p

\* C13: the inference looks at the cursor position and at each of the 10
\* columns to its left: a node of a category that is first met 10 columns
\* or fewer left of the cursor decides the context.
C13_ScansTenColumnsLeft ==
    last.op = "infer_context" =>
        \A p \in Columns :
            (p <= last.at /\ last.at - p <= ScanWidth
                /\ Notable(NodeAt(last.row, p))
                /\ PlainBetween(last.row, p, last.at))
              => last.context = ContextOf(NodeAt(last.row, p))

----------------------------------------------------------------------------
(* Claims on body lowering and completions (SpecIde)                       *)

\* the positions <<file, k>> of the items of the neighborhood of f
NeighborhoodItems(f) ==
    {p \in neighborhood(f) \X (1..MaxItems) :
        p[2] <= Len(items(file_data[p[1]]).items)}

CompletionAt(p) ==
    LET its == items(file_data[p[1]]) IN CompletionOf(its, its.items[p[2]])

Occurrences(s, x) == Cardinality({k \in 1..Len(s) : s[k] = x})

\* the result holds each item of the neighborhood that is eligible as often
\* as the neighborhood has it, and nothing else
ExactlyTheEligible(result, f, Eligible(_)) ==
    /\ \A k \in 1..Len(result) :
         \E p \in NeighborhoodItems(f) : CompletionAt(p) = result[k]
    /\ \A p \in NeighborhoodItems(f) :
         Occurrences(result, CompletionAt(p)) =
             IF Eligible(CompletionAt(p))
             THEN Cardinality({q \in NeighborhoodItems(f) : CompletionAt(q) = CompletionAt(p)})
             ELSE 0

\* the innermost type of a lowered type
RECURSIVE Innermost(_)
Innermost(ty) == IF ty.inner = <<>> THEN ty ELSE Innermost(ty.inner[1])

NameHasItem(f, name) ==
    \E p \in NeighborhoodItems(f) : items(file_data[p[1]]).items[p[2]].name = name

\* C11: lowering a named type reference whose name is the name of no item
\* in the neighborhood of the file gives the kind Err(name) and exactly one
\* UnresolvedType(name) diagnostic at the range of the name; a reference
\* whose name resolves gives Named(name, resolution) and no diagnostic
C11_UnresolvedNameIsErrWithOneDiagnostic ==
    (last.op = "lower_type" /\ NameNodeOf(last.node) # <<>>) =>
        LET name == NameNodeOf(last.node)[1]
            ty == Innermost(last.ty[1])
        IN  /\ last.ty # <<>>
            /\ ty.name = name.name
            /\ IF NameHasItem(last.file, name.name)
               THEN /\ ty.kind = "Named"
                    /\ ty.res = resolve_item(last.file, name.name)
                    /\ ~ty.res.err
                    /\ last.diagnostics = <<>>
               ELSE /\ ty.kind = "Err"
                    /\ last.diagnostics =
                         <<[range |-> name.range, kind |-> "UnresolvedType",
                            name |-> name.name]>>

\* a name that no file of the neighborhood defines, under a non-null list,
\* while a file outside the neighborhood defines it
C11_Witness ==
    /\ last.op = "lower_type"
    /\ last.ty # <<>>
    /\ last.ty[1].kind = "NonNull"
    /\ Innermost(last.ty[1]).kind = "Err"
    /\ Innermost(last.ty[1]).name = "Foo"
    /\ Len(last.diagnostics) = 1
    /\ \E g \in FileIds \ neighborhood(last.file) :
         file_data[g] # NoData /\ "Foo" \in DOMAIN item_map(file_data[g])

\* the types of a lowered type, from the outermost to the innermost
RECURSIVE TypesWithin(_)
TypesWithin(ty) ==
    IF ty.inner = <<>> THEN {ty} ELSE {ty} \cup TypesWithin(ty.inner[1])

\* C29: a lowered type of kind Named carries a resolution that is not Err;
\* through any nesting of NonNull and List, item_resolutions() is empty if
\* and only if the innermost type is Err, and name() is the innermost name
C29_NamedIsResolved ==
    (last.op = "lower_type" /\ last.ty # <<>>) =>
        /\ \A ty \in TypesWithin(last.ty[1]) :
             ty.kind = "Named" => ~ty.res.err
        /\ item_resolutions(last.ty[1]) = <<>> <=> Innermost(last.ty[1]).kind = "Err"
        /\ name_of_type(last.ty[1]) = NameNodeOf(last.node)[1].name

\* `[Foo!]!` with Foo defined in the two files of the project
C29_Witness ==
    /\ last.op = "lower_type"
    /\ last.ty # <<>>
    /\ last.ty[1].kind = "NonNull"
    /\ last.ty[1].inner[1].kind = "List"
    /\ Innermost(last.ty[1]).kind = "Named"
    /\ Len(item_resolutions(last.ty[1])) = 2
    /\ name_of_type(last.ty[1]) = "Foo"

StatedFieldEligible(c) ==
    \/ c.kind \in {"Object", "Interface", "Enum", "Scalar", "Union"}
    \/ c.kind = "Directive" /\ "FIELD_DEFINITION" \in c.locations

\* C14: in the Field context the completions are exactly the items of the
\* neighborhood that are object, interface, enum, scalar or union types or
\* directives on FIELD_DEFINITION: no input object, no keyword, no item of
\* a file outside the neighborhood
C14_FieldCompletionsAreTheEligibleItems ==
    (last.op = "completions" /\ last.context = Field) =>
        /\ ExactlyTheEligible(last.completions, last.file, StatedFieldEligible)
        /\ \A k \in 1..Len(last.completions) :
             last.completions[k].kind \notin {"InputObject", "Keyword"}

\* an object type is offered while the neighborhood also has an input object
C14_Witness ==
    /\ last.op = "completions"
    /\ last.context = Field
    /\ Len(last.completions) = 1
    /\ last.completions[1].kind = "Object"
    /\ \E p \in NeighborhoodItems(last.file) : CompletionAt(p).kind = "InputObject"

\* C15: keyword items appear exactly in the Document context, where the
\* result is the seven keywords and no type or directive item
C15_KeywordsIffDocument ==
    last.op = "completions" =>
        IF last.context = Document
        THEN /\ Len(last.completions) = 7
             /\ {last.completions[k].label : k \in 1..Len(last.completions)} =
                  {"scalar", "enum", "struct", "union", "interface", "directive", "input"}
             /\ \A k \in 1..Len(last.completions) : last.completions[k].kind = "Keyword"
        ELSE \A k \in 1..Len(last.completions) : last.completions[k].kind # "Keyword"

\* the seven keywords at top level of a file whose neighborhood has items
C15_Witness ==
    /\ last.op = "completions"
    /\ last.context = Document
    /\ Len(last.completions) = 7
    /\ Cardinality(NeighborhoodItems(last.file)) = 2

QuxLocations == {"FIELD_DEFINITION", "OBJECT", "INPUT_OBJECT"}

\* C16: in the context Directive(L) the completions are exactly the
\* directives of the neighborhood whose locations contain L; a directive on
\* FIELD_DEFINITION | OBJECT | INPUT_OBJECT is offered inside an object type
\* definition and not inside an enum value
C16_DirectivesGatedByLocation ==
    (last.op = "completions" /\ last.context.ctx = "Directive") =>
        /\ ExactlyTheEligible(last.completions, last.file,
               LAMBDA c : c.kind = "Directive" /\ last.context.loc \in c.locations)
        /\ \A p \in NeighborhoodItems(last.file) :
             (CompletionAt(p).kind = "Directive" /\ CompletionAt(p).locations = QuxLocations) =>
                 /\ last.context.loc = "OBJECT" =>
                      Occurrences(last.completions, CompletionAt(p)) > 0
                 /\ last.context.loc = "ENUM_VALUE" =>
                      Occurrences(last.completions, CompletionAt(p)) = 0

\* inside an object type definition, with a directive on ENUM_VALUE also in
\* the neighborhood, only qux is offered
C16_Witness ==
    /\ last.op = "completions"
    /\ last.context = Directive("OBJECT")
    /\ last.completions = <<CompletionItem("qux", "Directive", QuxLocations)>>
    /\ \E p \in NeighborhoodItems(last.file) :
         CompletionAt(p) = CompletionItem("d", "Directive", {"ENUM_VALUE"})

IsObjectExtension(node) ==
    node.def = "type_extension" /\ node.kind = "object_type_extension"

Referring(out, kind, j) ==
    {k \in 1..Len(out.items) : out.items[k].kind = <<kind, j>>}

----------------------------------------------------------------------------
(* Claims on the syntax helpers (SpecSyntax)                               *)

NonErrorChildren(node) == SelectSeq(node.child, LAMBDA child : child.kind # "ERROR")

\* C25: sole_named_child never returns an ERROR child; of ERROR nodes and at
\* most one other named child it returns that child, and none when every
\* named child is an ERROR node
C25_SoleNamedChildIgnoresErrorNodes ==
    last.op = "sole_named_child" =>
        /\ \A k \in 1..Len(last.node.child) :
             last.node.child[k].kind = "ERROR" => last.out # last.node.child[k]
        /\ Len(NonErrorChildren(last.node)) <= 1 =>
             last.out = IF NonErrorChildren(last.node) = <<>> THEN None
                        ELSE NonErrorChildren(last.node)[1]

----------------------------------------------------------------------------
(* Claims on name-at-point, goto-definition and the keys of the item map   *)
(* (SpecDef)                                                               *)

\* the point is on the row of the reference, between the columns a and b
OnColumns(point, a, b) == point[1] = RefRow /\ a <= point[2] /\ point[2] < b

\* C22: ranges are half-open: contains(p) holds exactly when
\* start <= p < end, so name_at returns the name at every column from the
\* first of the name token up to but excluding its end column, and none at
\* the end column, in blanks and in punctuation
C22_RangesAreHalfOpen ==
    last.op = "name_at" =>
        LET name == NameNodeOf(last.node) IN
        IF name # <<>> /\ OnColumns(last.point, name[1].range[1], name[1].range[2])
        THEN /\ last.name = name[1].name
             /\ contains(PointRange(name[1]), last.point)
        ELSE /\ last.name = NoName
             /\ name # <<>> => ~contains(PointRange(name[1]), last.point)

\* the cursor on the last character of the name of `Foo!`
C22_Witness ==
    /\ last.op = "name_at"
    /\ last.node = TypeOf(NonNullType(NamedType("Foo")))
    /\ last.point = <<RefRow, 7>>
    /\ last.name = "Foo"

ItemAt(p) == items(file_data[p[1]]).items[p[2]]

\* C21: goto_definition at a point inside a type reference, the characters
\* of its non-null and list wrappers included, returns exactly the
\* locations of the names of the items of the neighborhood that have the
\* name of the reference, whatever their file; at a point on no name it
\* returns the empty list
C21_GotoReturnsEveryDefinition ==
    last.op = "goto_definition" =>
        LET name == NameNodeOf(last.node)
            expected == {[file |-> p[1], range |-> NameRange(ItemAt(p))] :
                            p \in {q \in NeighborhoodItems(last.file) :
                                      name # <<>> /\ ItemAt(q).name = name[1].name}}
        IN  IF name # <<>> /\ OnColumns(last.point, last.node.range[1], last.node.range[2])
            THEN /\ {last.locations[k] : k \in 1..Len(last.locations)} = expected
                 /\ Len(last.locations) = Cardinality(expected)
            ELSE last.locations = <<>>

\* the cursor on the closing bracket of `[Foo!]!`, Foo being defined in one
\* file of the project and extended in the other
C21_Witness ==
    /\ last.op = "goto_definition"
    /\ last.node = TypeOf(NonNullType(ListType(TypeOf(NonNullType(NamedType("Foo"))))))
    /\ last.point = <<RefRow, 9>>
    /\ Len(last.locations) = 2
    /\ last.locations[1].file # last.locations[2].file
    /\ \E f \in FileIds : file_data[f] = <<ExtObjFoo>>

\* C26: the key of a directive definition in the item map is its name with
\* the leading sigil: a key of the map lists type definitions only or
\* directive definitions only, and resolve of a type name returns no
\* directive definition
C26_DirectiveKeysCarryTheSigil ==
    /\ \A f \in FileIds :
         file_data[f] # NoData =>
             \A key \in DOMAIN item_map(file_data[f]) :
                 \A i, j \in 1..Len(item_map(file_data[f])[key]) :
                     items(file_data[f]).items[item_map(file_data[f])[key][i] + 1].kind[1] =
                       items(file_data[f]).items[item_map(file_data[f])[key][j] + 1].kind[1]
    /\ last.op = "resolve" =>
         \A k \in 1..Len(last.res) :
             items(file_data[last.res[k].file]).items[last.res[k].idx + 1].kind[1]
                 # "DirectiveDefinition"

----------------------------------------------------------------------------
(* Claims on item body lowering (SpecBody)                                 *)

\* C23: no query raises: whatever the tree, ERROR nodes and integer
\* defaults out of range included, the lowering of a body returns a value
C23_NoQueryRaises ==
    last.op = "lower_typedef" => last.out # Panic

\* the sub-item nodes of a body of fields or of input fields
SubItems(node) ==
    IF node.kind = "object_type_definition"
    THEN children_of_kind(child_of_kind(node, "fields_definition"), "field_definition")
    ELSE children_of_kind(child_of_kind(node, "input_fields_definition"),
                          "input_value_definition")

\* the lowering of one sub-item on its own returns None
IsDropped(file, node) ==
    IF node.kind = "field_definition"
    THEN ~lower_field(file, node, <<>>).some
    ELSE ~lower_input_value(file, node, <<>>).some

Within(inner, outer) == outer[1] <= inner[1] /\ inner[2] <= outer[2]

\* C24: when the lowering of a body drops a malformed field or input field,
\* a diagnostic is recorded for it in the diagnostics of the body, and the
\* other sub-items of the body are lowered
C24_DroppedSubItemHasDiagnostic ==
    (last.op = "lower_typedef" /\ last.out # Panic
        /\ last.node.kind \in {"object_type_definition", "input_object_type_definition"}) =>
        LET nodes == SubItems(last.node)
            kept == SelectSeq(nodes, LAMBDA node : ~IsDropped(last.file, node))
        IN  /\ \A k \in 1..Len(nodes) :
                 IsDropped(last.file, nodes[k]) =>
                     \E d \in 1..Len(last.out.diagnostics) :
                         Within(last.out.diagnostics[d].range, nodes[k].range)
            /\ [k \in 1..Len(last.out.val) |-> last.out.val[k].range] =
                 [k \in 1..Len(kept) |-> kept[k].range]

ErrRangesOf(ty) == {t.range : t \in {u \in TypesWithin(ty) : u.kind = "Err"}}

\* the ranges of the Err types of the fields, arguments, input fields and
\* union members of a body
ErrRanges(body) ==
    IF body.kind = "Union"
    THEN UNION {ErrRangesOf(body.val[k]) : k \in 1..Len(body.val)}
    ELSE UNION {ErrRangesOf(body.val[k].ty)
                  \cup UNION {ErrRangesOf(body.val[k].args[a].ty) :
                                 a \in 1..Len(body.val[k].args)} :
                k \in 1..Len(body.val)}

\* C30: the UnresolvedType diagnostics of a body are, one for one, the Err
\* types of its fields, arguments, input fields and union members: none is
\* recorded for a type of a sub-item that was dropped from the body
C30_UnresolvedDiagnosticsMatchErrTypes ==
    (last.op = "lower_typedef" /\ last.out # Panic
        /\ last.out.kind \in {"Object", "InputObject", "Union"}) =>
        LET unresolved == {d \in 1..Len(last.out.diagnostics) :
                              last.out.diagnostics[d].kind = "UnresolvedType"}
        IN  /\ {last.out.diagnostics[d].range : d \in unresolved} = ErrRanges(last.out)
            /\ Cardinality(unresolved) = Cardinality(ErrRanges(last.out))

====
